---- MODULE Spec2Model ----
(***************************************************************************)
(* A model of the ingestion and retrieval pipeline of rag_service_pathway: *)
(* the FAISS index singleton and its two artifacts on disk                 *)
(* (ingestion_utils.py), the calls add_to_index, query_index,              *)
(* fetch_text_from_url, chunk_text and ingest_url_to_index.                *)
(*                                                                         *)
(* Every call is a small state machine of one thread: pc[t] is the place   *)
(* the thread has reached in the call, loc[t] its local variables.  A step *)
(* is one access to shared state (the module global _index, the index      *)
(* object, one of the two files) or one network attempt, together with the *)
(* thread-local code that follows it.                                      *)
(*                                                                         *)
(* Positions are 0-based as in the source: position p of a Python list is  *)
(* element p+1 of the sequence that models it.                             *)
(***************************************************************************)
EXTENDS Integers, Sequences, FiniteSets, TLC

VARIABLES
    indexFile,  \* INDEX_PATH: [st: "missing" | "corrupt" | "ok", data: vectors]
    metaFile,   \* META_PATH:  [st: "missing" | "corrupt" | "ok", data: records]
    gindex,     \* the global _index: 0 is None, else the index object's id
    heap,       \* the index objects: heap[o] is the vectors of object o
    pc,         \* pc[t]: where thread t stands
    loc,        \* loc[t]: the locals of the call thread t is in
    ntags,      \* tags handed out: vector i and the record added with it share one
    ncalls,     \* calls of ingest_url_to_index begun so far
    overlap,    \* history: some call began while another call was running
    seed,       \* the running ingest_seed_list call (seed_ingest.py)
    sel,        \* a call of select_candidates (realtime_retriever.py)
    sitemapCache, \* SITEMAP_CACHE: [st, base, urls, fetched_at]
    pageCache,  \* PAGE_CACHE_DIR: pageCache[key] is the file key + ".pkl"
    clock,      \* time.time(), in seconds
    live,       \* the last call of load_sitemap_urls, fetch_text or query_live
    refresh     \* concurrent calls of load_sitemap_urls and the bytes of SITEMAP_CACHE

\* The state of ingestion_utils.py, and the state of the modules around it.
storeVars == <<indexFile, metaFile, gindex, heap, pc, loc, ntags, ncalls, overlap>>
seedVars == <<seed>>
liveVars == <<sel, sitemapCache, pageCache, clock, live>>
raceVars == <<refresh>>
outerVars == <<seedVars, liveVars, raceVars>>

vars == <<storeVars, outerVars>>

(***************************************************************************)
(* Bounds of the model.                                                    *)
(***************************************************************************)
MaxVecs == 4       \* vectors handed to direct adds in one behaviour
MaxBatch == 2      \* vectors (and records) in one direct add
MaxIngests == 2    \* calls of ingest_url_to_index in one behaviour
MaxK == 3          \* the largest top_k a search is called with
MaxSeeds == 2      \* the most lines the seeds file holds
MaxUrls == 3       \* the longest list of URLs drawn freely
MaxTopN == 3       \* the largest top_n select_candidates is called with
MaxDays == 1       \* the days the clock runs
MaxRuns == 3       \* the most runs of a text chunk_text is called with directly
MaxRun == 3        \* the longest run of such a text
MaxChunk == 3      \* the largest max_chars of such a call
MaxRefreshes == 3  \* the most calls of load_sitemap_urls the concurrent threads make

Threads == {1, 2}
None == 0

\* The vectors a direct add draws from and the query vectors of a search.
\* All have one dimension (the embedder's), as add_to_index requires.
VecChoices == {<<1, 0>>, <<0, 1>>}
QueryChoices == {<<1, 0>>, <<1, 1>>}

Dot(q, v) == q[1] * v[1] + q[2] * v[2]

Min2(a, b) == IF a <= b THEN a ELSE b
Max2(a, b) == IF a >= b THEN a ELSE b

NoFile == [st |-> "missing", data |-> <<>>]

(***************************************************************************)
(* URLs.  A URL is the string [scheme://][www.]name[/]: the model keeps    *)
(* the parts fetch_text_from_url looks at.                                 *)
(***************************************************************************)
NoUrl == [scheme |-> FALSE, www |-> FALSE, slash |-> FALSE, name |-> "-"]

UrlRecipe ==
    [scheme |-> TRUE, www |-> FALSE, slash |-> FALSE, name |-> "example.com/recipe-x"]
UrlBare ==
    [scheme |-> FALSE, www |-> TRUE, slash |-> TRUE, name |-> "example.com/dal"]

(***************************************************************************)
(* Texts.  A text is a sequence of runs of whitespace and of other         *)
(* characters; a substring of it is the pair of its first and last         *)
(* character positions (0-based).                                          *)
(***************************************************************************)
W(n) == [ws |-> TRUE, n |-> n]
N(n) == [ws |-> FALSE, n |-> n]

RECURSIVE TLen(_)
TLen(text) == IF text = <<>> THEN 0 ELSE Head(text).n + TLen(Tail(text))

\* The position of the first character of run i.
RunStart(text, i) == TLen(SubSeq(text, 1, i - 1))

\* str.strip(): the text without its leading and trailing whitespace.
RECURSIVE lstrip(_)
lstrip(text) ==
    IF text # <<>> /\ Head(text).ws THEN lstrip(Tail(text)) ELSE text

RECURSIVE rstrip(_)
rstrip(text) ==
    IF text # <<>> /\ text[Len(text)].ws
      THEN rstrip(SubSeq(text, 1, Len(text) - 1))
      ELSE text

strip(text) == rstrip(lstrip(text))

\* The responses a primary GET and the proxy can be read as (before strip),
\* chosen around the two acceptance thresholds and the chunk sizes.
PrimaryTexts ==
    {<<>>, <<W(300)>>, <<N(199)>>, <<W(3), N(200), W(2)>>, <<N(2500)>>,
     <<N(200), W(1800), N(200)>>}

ProxyTexts == {<<>>, <<N(119)>>, <<W(1), N(120)>>}

\* The calls ingest_url_to_index(url, max_chunk_chars) the model makes.
IngestChoices ==
    {[url |-> UrlRecipe, M |-> 1000], [url |-> UrlRecipe, M |-> 100],
     [url |-> UrlBare, M |-> 1500]}

(***************************************************************************)
(* Locals of a call.  A field a call does not use keeps its initial value. *)
(***************************************************************************)
InitLoc ==
    [op        |-> "none",    \* "add" | "search" | "ingest" | "chunk"
     idx       |-> None,      \* idx: the index object ensure_index returned
     vectors   |-> <<>>,      \* add_to_index: vectors
     metadatas |-> <<>>,      \* add_to_index: metadatas
     meta      |-> <<>>,      \* meta = load_meta() (and meta.extend)
     url       |-> NoUrl,     \* ingest_url_to_index / fetch_text_from_url: url
     M         |-> 0,         \* ingest_url_to_index: max_chunk_chars
     variants  |-> <<>>,      \* fetch_text_from_url: variants
     v         |-> 0,         \* the variant the primary loop is at (1-based)
     attempt   |-> 0,         \* attempt of the inner loop / of the proxy loop
     primary_errors |-> <<>>, \* the first 3 of primary_errors (all line 152 reads)
     n_primary |-> 0,         \* len(primary_errors)
     proxy_errors |-> <<>>,   \* the first 3 of proxy_errors
     n_proxy   |-> 0,         \* len(proxy_errors)
     log       |-> <<>>,      \* history: the network attempts made, in order
     fetch     |-> "none",    \* history: "ok" | "raised", how the fetch ended
     src       |-> "none",    \* history: "primary" | "proxy", where the text is from
     title     |-> "-",       \* title
     text      |-> <<>>,      \* text
     chunks    |-> <<>>,      \* chunks
     i         |-> 0,         \* the batch loop's i
     vectors_list |-> <<>>,   \* vectors_list, the batches stacked
     pre       |-> [vecs |-> <<>>, meta |-> <<>>],  \* history: the store at the call
     persisted |-> FALSE,     \* history: both writes of the persist succeeded
     loaded    |-> [index |-> "none", meta |-> "none"],
                              \* history: the two files as this call's
                              \* ensure_index found them when it built _index
     q         |-> <<0, 0>>,  \* query_index: query_vec
     k         |-> 0,         \* query_index: top_k
     I         |-> <<>>,      \* query_index: I[0], the positions FAISS reported
     ntotal    |-> -1,        \* idx.ntotal as line 274 read it
     searched  |-> <<>>,      \* history: the vectors idx held when it was searched
     outcome   |-> "none",    \* "returned" | "raised"
     result    |-> <<>>]      \* the value returned

(***************************************************************************)
(* load_meta: the pickled list, or [] when the file is missing or does not *)
(* unpickle.                                                               *)
(***************************************************************************)
load_meta_Empty == <<>>

load_meta == IF metaFile.st = "ok" THEN metaFile.data ELSE <<>>

\* meta.extend(metadatas)
extend_Prepend(meta, metadatas) == metadatas \o meta

extend(meta, metadatas) == meta \o metadatas

\* idx.add(vectors) on the vectors an index object holds
index_add(held, vectors) == held \o vectors

\* The vectors of the index the process serves from (none before ensure_index).
IndexVecs == IF gindex = None THEN <<>> ELSE heap[gindex]

\* What a reader of META_PATH gets.
StoredRecords == IF metaFile.st = "ok" THEN metaFile.data ELSE <<>>

Active(t) == pc[t] \notin {"idle", "ret"}

Begin(t) == overlap' = (overlap \/ \E o \in Threads \ {t} : Active(o))

(***************************************************************************)
(* ensure_index, lines 199-212.  The test of _index and the assignment to  *)
(* it are two steps: a second thread may run between them.                 *)
(***************************************************************************)
\* line 199: if _index is not None: return _index
ensure_index_check(t, created, found) ==
    /\ IF gindex # None
         THEN /\ loc' = [loc EXCEPT ![t].idx = gindex]
              /\ pc' = [pc EXCEPT ![t] = found]
         ELSE /\ pc' = [pc EXCEPT ![t] = created]
              /\ UNCHANGED loc
    /\ UNCHANGED <<indexFile, metaFile, gindex, heap, ntags, ncalls, overlap, outerVars>>

\* lines 202-212: read INDEX_PATH, or create an empty IndexFlatIP when it is
\* missing or unreadable; the new object becomes _index.
ensure_index_create(t, found) ==
    /\ heap' = [heap EXCEPT ![t] =
                  IF indexFile.st = "ok" THEN indexFile.data ELSE <<>>]
    /\ gindex' = t
    /\ loc' = [loc EXCEPT ![t].idx = t,
                          ![t].loaded = [index |-> indexFile.st, meta |-> metaFile.st]]
    /\ pc' = [pc EXCEPT ![t] = found]
    /\ UNCHANGED <<indexFile, metaFile, ntags, ncalls, overlap, outerVars>>

(***************************************************************************)
(* add_to_index, lines 254-266.                                            *)
(***************************************************************************)
\* The vectors and records of a call that begins when c tags are out: vector
\* i and record i of the call carry the tag c + i.
NewVectors(c, vals) == [i \in 1..Len(vals) |-> [tag |-> c + i, val |-> vals[i]]]

PlainRecords(c, n) ==
    [i \in 1..n |-> [tag |-> c + i, url |-> NoUrl, title |-> "-",
                     snippet |-> [first |-> 0, last |-> 0]]]

\* line 258: an empty batch returns at once; else line 262, ensure_index.
add_to_index_enter(t, after) ==
    IF Len(loc'[t].vectors) = 0
      THEN pc' = [pc EXCEPT ![t] = after]
      ELSE pc' = [pc EXCEPT ![t] = "a_ensure"]

\* A direct call add_to_index(vectors, metadatas) with nr records.
AddCall(t, vals, nr) ==
    /\ pc[t] = "idle"
    /\ ntags + Max2(Len(vals), nr) <= MaxVecs
    /\ ntags' = ntags + Max2(Len(vals), nr)
    /\ loc' = [loc EXCEPT ![t] =
                 [InitLoc EXCEPT !.op = "add",
                                 !.vectors = NewVectors(ntags, vals),
                                 !.metadatas = PlainRecords(ntags, nr),
                                 !.outcome = IF Len(vals) = 0 THEN "returned" ELSE "none"]]
    /\ add_to_index_enter(t, "ret")
    /\ Begin(t)
    /\ UNCHANGED <<indexFile, metaFile, gindex, heap, ncalls, outerVars>>

AddEnsure(t) ==
    /\ pc[t] = "a_ensure"
    /\ ensure_index_check(t, "a_create", "a_append")

AddCreate(t) ==
    /\ pc[t] = "a_create"
    /\ ensure_index_create(t, "a_append")

\* line 263: idx.add(vectors)
AddAppend(t) ==
    /\ pc[t] = "a_append"
    /\ heap' = [heap EXCEPT ![loc[t].idx] = index_add(@, loc[t].vectors)]
    /\ pc' = [pc EXCEPT ![t] = "a_load"]
    /\ UNCHANGED <<indexFile, metaFile, gindex, loc, ntags, ncalls, overlap, outerVars>>

\* lines 264-265: meta = load_meta(); meta.extend(metadatas)
AddLoad(t) ==
    /\ pc[t] = "a_load"
    /\ loc' = [loc EXCEPT ![t].meta = extend(load_meta, loc[t].metadatas)]
    /\ pc' = [pc EXCEPT ![t] = "p_index"]
    /\ UNCHANGED <<indexFile, metaFile, gindex, heap, ntags, ncalls, overlap, outerVars>>

(***************************************************************************)
(* persist_index_and_meta, lines 215-226.  An exception of either write is *)
(* caught and logged (line 225); the call returns normally.                *)
(***************************************************************************)
\* The value add_to_index's caller gets once the persist has returned.
AddDone(t) ==
    IF loc[t].op = "ingest"
      THEN [status |-> "ingested", url |-> loc[t].url, chunks |-> Len(loc[t].chunks)]
      ELSE <<>>

\* The exception of a failed write is let through to the caller.
Return_Raises(t, saved) ==
    /\ loc' = [loc EXCEPT ![t].outcome = IF saved THEN "returned" ELSE "raised",
                          ![t].persisted = saved,
                          ![t].result = IF saved THEN AddDone(t) ELSE <<>>]
    /\ pc' = [pc EXCEPT ![t] = "ret"]

\* lines 224-226 and 266, 320-322: the persist returns, logged failure or
\* not, and so do add_to_index and its caller
Return(t, saved) ==
    /\ loc' = [loc EXCEPT ![t].outcome = "returned", ![t].persisted = saved,
                          ![t].result = AddDone(t)]
    /\ pc' = [pc EXCEPT ![t] = "ret"]

\* lines 218-222: faiss.write_index(_index, INDEX_PATH): the object _index
\* names now is written whole.  A failed write leaves the file as it was or
\* unreadable, and skips the metadata write.
PersistIndex(t, ok, damaged) ==
    /\ pc[t] = "p_index"
    /\ IF gindex = None
         THEN /\ Return(t, FALSE)
              /\ UNCHANGED indexFile
         ELSE IF ok
           THEN /\ indexFile' = [st |-> "ok", data |-> heap[gindex]]
                /\ pc' = [pc EXCEPT ![t] = "p_open"]
                /\ UNCHANGED loc
           ELSE /\ indexFile' = IF damaged THEN [st |-> "corrupt", data |-> <<>>]
                                           ELSE indexFile
                /\ Return(t, FALSE)
    /\ UNCHANGED <<metaFile, gindex, heap, ntags, ncalls, overlap, outerVars>>

\* line 223: open(META_PATH, "wb") truncates the file: until the dump is
\* complete a reader finds a file that does not unpickle.
PersistOpen(t, ok) ==
    /\ pc[t] = "p_open"
    /\ IF ok
         THEN /\ metaFile' = [st |-> "corrupt", data |-> <<>>]
              /\ pc' = [pc EXCEPT ![t] = "p_dump"]
              /\ UNCHANGED loc
         ELSE /\ Return(t, FALSE)
              /\ UNCHANGED metaFile
    /\ UNCHANGED <<indexFile, gindex, heap, ntags, ncalls, overlap, outerVars>>

\* line 223: pickle.dump(meta, ...)
PersistDump(t, ok) ==
    /\ pc[t] = "p_dump"
    /\ IF ok
         THEN /\ metaFile' = [st |-> "ok", data |-> loc[t].meta]
              /\ Return(t, TRUE)
         ELSE /\ Return(t, FALSE)
              /\ UNCHANGED metaFile
    /\ UNCHANGED <<indexFile, gindex, heap, ntags, ncalls, overlap, outerVars>>

(***************************************************************************)
(* query_index, lines 269-282.                                             *)
(***************************************************************************)
\* The positions (0-based) of vecs with the largest inner product with q
\* among those in left.
Best(vecs, q, left) ==
    {p \in left : \A r \in left : Dot(q, vecs[p + 1].val) >= Dot(q, vecs[r + 1].val)}

\* The ways to list the j best positions of left by descending inner product.
\* IndexFlatIP does not fix the order of positions with equal inner products,
\* nor which of them make the cut: every such order is a possible report.
RECURSIVE TopOrders(_, _, _, _)
TopOrders(vecs, q, left, j) ==
    IF j = 0 \/ left = {}
      THEN {<<>>}
      ELSE UNION {{<<p>> \o s : s \in TopOrders(vecs, q, left \ {p}, j - 1)} :
                    p \in Best(vecs, q, left)}

\* line 276: D, I = idx.search(query, top_k): the reports I[0] FAISS can make,
\* k positions by descending inner product, filled with -1 when the index
\* holds fewer than k vectors.
FlatSearch(vecs, q, k) ==
    {s \o [i \in 1..(k - Len(s)) |-> -1] :
        s \in TopOrders(vecs, q, 0..(Len(vecs) - 1), k)}

\* Python's meta[i_pos]: a negative position counts from the end.
PyItem(meta, i) == IF i >= 0 THEN meta[i + 1] ELSE meta[Len(meta) + i + 1]

\* line 280: if i_pos < len(meta)
Kept(i, n) == i < n

\* lines 279-281: meta[i_pos] raises IndexError when i_pos < -len(meta).
CollectRaises(I, meta) ==
    \E j \in 1..Len(I) : Kept(I[j], Len(meta)) /\ I[j] < 0 - Len(meta)

\* The records in the reverse of the reported order.
RECURSIVE Collect_Reversed(_, _)
Collect_Reversed(I, meta) ==
    IF I = <<>>
      THEN <<>>
      ELSE Collect_Reversed(Tail(I), meta)
             \o (IF Kept(Head(I), Len(meta)) THEN <<PyItem(meta, Head(I))>> ELSE <<>>)

RECURSIVE Collect(_, _)
Collect(I, meta) ==
    IF I = <<>>
      THEN <<>>
      ELSE (IF Kept(Head(I), Len(meta)) THEN <<PyItem(meta, Head(I))>> ELSE <<>>)
             \o Collect(Tail(I), meta)

SearchCall(t, q, k) ==
    /\ pc[t] = "idle"
    /\ loc' = [loc EXCEPT ![t] = [InitLoc EXCEPT !.op = "search", !.q = q, !.k = k]]
    /\ pc' = [pc EXCEPT ![t] = "s_ensure"]
    /\ Begin(t)
    /\ UNCHANGED <<indexFile, metaFile, gindex, heap, ntags, ncalls, outerVars>>

\* line 273: idx = ensure_index()
SearchEnsure(t) ==
    /\ pc[t] = "s_ensure"
    /\ ensure_index_check(t, "s_create", "s_search")

SearchCreate(t) ==
    /\ pc[t] = "s_create"
    /\ ensure_index_create(t, "s_search")

\* The test of line 274 as a mutant drops it: never the early return.
IsEmpty_Never(n) == FALSE

\* line 274: if idx.ntotal == 0
IsEmpty(n) == n = 0

\* lines 274-276
SearchIndex(t) ==
    /\ pc[t] = "s_search"
    /\ IF IsEmpty(Len(heap[loc[t].idx]))
         THEN /\ loc' = [loc EXCEPT ![t].outcome = "returned", ![t].result = <<>>,
                                    ![t].ntotal = Len(heap[loc[t].idx])]
              /\ pc' = [pc EXCEPT ![t] = "ret"]
         ELSE /\ \E I \in FlatSearch(heap[loc[t].idx], loc[t].q, loc[t].k) :
                    loc' = [loc EXCEPT ![t].I = I, ![t].searched = heap[loc[t].idx],
                                       ![t].ntotal = Len(heap[loc[t].idx])]
              /\ pc' = [pc EXCEPT ![t] = "s_load"]
    /\ UNCHANGED <<indexFile, metaFile, gindex, heap, ntags, ncalls, overlap, outerVars>>

\* lines 277-282
SearchLoad(t) ==
    /\ pc[t] = "s_load"
    /\ LET meta == load_meta IN
         loc' = [loc EXCEPT ![t].meta = meta,
                   ![t].outcome = IF CollectRaises(loc[t].I, meta)
                                    THEN "raised" ELSE "returned",
                   ![t].result = IF CollectRaises(loc[t].I, meta)
                                   THEN <<>> ELSE Collect(loc[t].I, meta)]
    /\ pc' = [pc EXCEPT ![t] = "ret"]
    /\ UNCHANGED <<indexFile, metaFile, gindex, heap, ntags, ncalls, overlap, outerVars>>

(***************************************************************************)
(* fetch_text_from_url, lines 54-154.                                      *)
(***************************************************************************)
PrimaryMinLen == 200     \* line 115
ProxyMinLen == 120       \* line 137
PrimaryAttempts == 2     \* line 111: range(1, 3)
ProxyAttempts == 3       \* line 131: range(1, 4)

\* lines 94-103: the URL with its trailing slash toggled, with www. toggled
ToggleSlash(u) == [u EXCEPT !.slash = ~@]
ToggleWww(u) == [u EXCEPT !.www = ~@]

\* lines 106-107: dedupe preserving order
RECURSIVE Dedupe(_)
Dedupe(seq) ==
    IF seq = <<>>
      THEN <<>>
      ELSE LET r == Dedupe(SubSeq(seq, 1, Len(seq) - 1))
               x == seq[Len(seq)]
           IN  IF \E j \in 1..Len(r) : r[j] = x THEN r ELSE Append(r, x)

\* Only the URL as given.
Variants_Given(u) == <<u>>

\* lines 91-107: the www. toggle applies only to a URL with "://" in it.
Variants(u) ==
    Dedupe(<<u, ToggleSlash(u)>> \o (IF u.scheme THEN <<ToggleWww(u)>> ELSE <<>>))

\* A response: the request or the extraction raised, or text was extracted.
Raised == [ok |-> FALSE, raw |-> <<>>]
PrimaryResponses == {Raised} \cup {[ok |-> TRUE, raw |-> x] : x \in PrimaryTexts}
ProxyResponses == {Raised} \cup {[ok |-> TRUE, raw |-> x] : x \in ProxyTexts}

\* line 115: if text and len(text) >= 200
AcceptPrimary(text) == TLen(text) > 0 /\ TLen(text) >= PrimaryMinLen

\* Any non-empty text passes.
AcceptProxy_Any(text) == TLen(text) > 0

\* Any text passes, the empty one too.
AcceptProxy_Always(text) == TRUE

\* line 137: if proxy_text and len(proxy_text) >= 120
AcceptProxy(text) == TLen(text) > 0 /\ TLen(text) >= ProxyMinLen

\* The loops end after the first variant.
PrimaryLoopDone_FirstVariant(v, attempt, variants) == attempt >= PrimaryAttempts

\* lines 110-111: this was the last attempt on the last variant
PrimaryLoopDone(v, attempt, variants) ==
    attempt >= PrimaryAttempts /\ v >= Len(variants)

\* The first three errors of a list that got one more.
First3(errors, e) == IF Len(errors) < 3 THEN Append(errors, e) ELSE errors

\* lines 112-124: one attempt of the primary loop.  parse_html strips the
\* text (line 79); every exception of the attempt is caught (line 121).
FetchPrimary(t, r) ==
    /\ pc[t] = "f_primary"
    /\ LET l == loc[t]
           text == strip(r.raw)
           made == Append(l.log, [kind |-> "primary", v |-> l.v, attempt |-> l.attempt])
       IN  IF r.ok /\ AcceptPrimary(text)
             THEN /\ loc' = [loc EXCEPT ![t].log = made, ![t].title = "page",
                                        ![t].text = text, ![t].fetch = "ok",
                                        ![t].src = "primary"]
                  /\ pc' = [pc EXCEPT ![t] = "i_chunk"]
             ELSE /\ loc' = [loc EXCEPT
                       ![t].log = made,
                       ![t].primary_errors =
                           First3(@, IF r.ok THEN "too-short" ELSE "exception"),
                       ![t].n_primary = @ + 1,
                       ![t].attempt = IF @ >= PrimaryAttempts THEN 1 ELSE @ + 1,
                       ![t].v = IF l.attempt >= PrimaryAttempts THEN @ + 1 ELSE @]
                  /\ pc' = [pc EXCEPT ![t] =
                              IF PrimaryLoopDone(l.v, l.attempt, l.variants)
                                THEN "f_proxy" ELSE "f_primary"]
    /\ UNCHANGED <<indexFile, metaFile, gindex, heap, ntags, ncalls, overlap, outerVars>>

\* lines 131-154: one attempt of the proxy loop; after the last one,
\* line 150 raises the aggregated RuntimeError, which ingest_url_to_index
\* lets through.
FetchProxy(t, r) ==
    /\ pc[t] = "f_proxy"
    /\ LET l == loc[t]
           text == strip(r.raw)
           made == Append(l.log, [kind |-> "proxy", v |-> 0, attempt |-> l.attempt])
           errors == First3(l.proxy_errors, IF r.ok THEN "too-short" ELSE "exception")
       IN  IF r.ok /\ AcceptProxy(text)
             THEN /\ loc' = [loc EXCEPT ![t].log = made, ![t].title = "segment",
                                        ![t].text = text, ![t].fetch = "ok",
                                        ![t].src = "proxy"]
                  /\ pc' = [pc EXCEPT ![t] = "i_chunk"]
             ELSE IF l.attempt >= ProxyAttempts
               THEN /\ loc' = [loc EXCEPT
                         ![t].log = made, ![t].proxy_errors = errors,
                         ![t].n_proxy = @ + 1, ![t].fetch = "raised",
                         ![t].outcome = "raised",
                         ![t].result = [primary |-> l.primary_errors, proxy |-> errors]]
                    /\ pc' = [pc EXCEPT ![t] = "ret"]
               ELSE /\ loc' = [loc EXCEPT
                         ![t].log = made, ![t].proxy_errors = errors,
                         ![t].n_proxy = @ + 1, ![t].attempt = @ + 1]
                    /\ UNCHANGED pc
    /\ UNCHANGED <<indexFile, metaFile, gindex, heap, ntags, ncalls, overlap, outerVars>>

(***************************************************************************)
(* chunk_text, lines 160-173.                                              *)
(***************************************************************************)
\* The runs of text with a character other than whitespace in [a, b).
Inked(text, a, b) ==
    {r \in 1..Len(text) :
        /\ ~text[r].ws
        /\ Max2(a, RunStart(text, r)) < Min2(b, RunStart(text, r) + text[r].n)}

SetMin(S) == CHOOSE x \in S : \A y \in S : x <= y
SetMax(S) == CHOOSE x \in S : \A y \in S : x >= y

\* The window as it is cut, whitespace kept.
Window_Unstripped(text, a, b) == <<[first |-> a, last |-> b - 1]>>

\* text[a:b].strip(): empty, or the substring from the first to the last
\* character of the window that is no whitespace.
Window(text, a, b) ==
    LET rs == Inked(text, a, b) IN
      IF rs = {}
        THEN <<>>
        ELSE <<[first |-> SetMin({Max2(a, RunStart(text, r)) : r \in rs}),
                last  |-> SetMax({Min2(b, RunStart(text, r) + text[r].n) - 1 : r \in rs})]>>

\* lines 167-172: the loop from start
RECURSIVE chunks_from(_, _, _)
chunks_from(text, max_chars, start) ==
    IF start >= TLen(text)
      THEN <<>>
      ELSE LET end == Min2(start + max_chars, TLen(text))
           IN  Window(text, start, end) \o chunks_from(text, max_chars, end)

chunk_text(text, max_chars) ==
    IF TLen(text) = 0 THEN <<>> ELSE chunks_from(text, max_chars, 0)

ChunkLen(c) == c.last - c.first + 1

\* A direct call chunk_text(text, max_chars) on thread t.
ChunkText(t) ==
    /\ pc[t] = "c_chunk"
    /\ loc' = [loc EXCEPT ![t].chunks = chunk_text(loc[t].text, loc[t].M),
                          ![t].outcome = "returned"]
    /\ pc' = [pc EXCEPT ![t] = "ret"]
    /\ UNCHANGED <<indexFile, metaFile, gindex, heap, ntags, ncalls, overlap, outerVars>>

(***************************************************************************)
(* ingest_url_to_index, lines 288-322.                                     *)
(***************************************************************************)
batch_size == 16      \* line 303
SnippetMax == 1200    \* line 319

\* The embedder is outside the repository: any deterministic map from a
\* chunk to a vector of the index's dimension stands for it.
Embed(c) == IF ChunkLen(c) % 2 = 0 THEN <<1, 0>> ELSE <<0, 1>>

\* embed_texts(batch), lines 241-251
embed_texts(batch) == [j \in 1..Len(batch) |-> Embed(batch[j])]

\* line 319: chunk[:1200]
Snippet(c) == [first |-> c.first, last |-> Min2(c.last, c.first + SnippetMax - 1)]

\* The records in the reverse of the chunk order.
IngestRecords_Reversed(c, title, url, chunks) ==
    [i \in 1..Len(chunks) |->
        [tag |-> c + i, url |-> url, title |-> title,
         snippet |-> Snippet(chunks[Len(chunks) + 1 - i])]]

\* line 319: one record per chunk, in chunk order
IngestRecords(c, title, url, chunks) ==
    [i \in 1..Len(chunks) |->
        [tag |-> c + i, url |-> url, title |-> title, snippet |-> Snippet(chunks[i])]]

\* line 294: title, text = fetch_text_from_url(url)
IngestCall(t, url, M) ==
    /\ pc[t] = "idle"
    /\ ncalls < MaxIngests
    /\ ncalls' = ncalls + 1
    /\ loc' = [loc EXCEPT ![t] =
                 [InitLoc EXCEPT !.op = "ingest", !.url = url, !.M = M,
                                 !.variants = Variants(url), !.v = 1, !.attempt = 1,
                                 !.pre = [vecs |-> IndexVecs, meta |-> StoredRecords]]]
    /\ pc' = [pc EXCEPT ![t] = "f_primary"]
    /\ Begin(t)
    /\ UNCHANGED <<indexFile, metaFile, gindex, heap, ntags, outerVars>>

\* lines 295-299
IngestChunk(t) ==
    /\ pc[t] = "i_chunk"
    /\ LET l == loc[t]
           chunks == chunk_text(l.text, l.M)
       IN  IF TLen(l.text) = 0
             THEN /\ loc' = [loc EXCEPT ![t].outcome = "returned",
                               ![t].result = [status |-> "empty", url |-> l.url, chunks |-> -1]]
                  /\ pc' = [pc EXCEPT ![t] = "ret"]
             ELSE IF chunks = <<>>
               THEN /\ loc' = [loc EXCEPT ![t].outcome = "returned",
                                 ![t].result = [status |-> "no_chunks", url |-> l.url,
                                                chunks |-> -1]]
                    /\ pc' = [pc EXCEPT ![t] = "ret"]
               ELSE /\ loc' = [loc EXCEPT ![t].chunks = chunks, ![t].i = 0]
                    /\ pc' = [pc EXCEPT ![t] = "i_embed"]
    /\ UNCHANGED <<indexFile, metaFile, gindex, heap, ntags, ncalls, overlap, outerVars>>

\* The batches embedded so far go into the index before the exception is
\* raised again.
embed_failed_KeepBatches(t) ==
    /\ loc' = [loc EXCEPT ![t].outcome = "raised"]
    /\ pc' = [pc EXCEPT ![t] = "ret"]
    /\ gindex' = IF gindex = None THEN t ELSE gindex
    /\ heap' = [heap EXCEPT ![IF gindex = None THEN t ELSE gindex] =
                  @ \o NewVectors(ntags, loc[t].vectors_list)]

\* lines 308-310: the exception of embed_texts is logged and raised again;
\* nothing has been added yet.
embed_failed(t) ==
    /\ loc' = [loc EXCEPT ![t].outcome = "raised"]
    /\ pc' = [pc EXCEPT ![t] = "ret"]
    /\ UNCHANGED <<gindex, heap>>

\* lines 304-320: one batch of the loop.  After the last batch the vectors
\* are stacked, the records built, and add_to_index is called.
IngestEmbed(t, ok) ==
    /\ pc[t] = "i_embed"
    /\ LET l == loc[t]
           batch == SubSeq(l.chunks, l.i + 1, Min2(l.i + batch_size, Len(l.chunks)))
           stacked == l.vectors_list \o embed_texts(batch)
           last == l.i + batch_size >= Len(l.chunks)
       IN  IF ~ok
             THEN /\ embed_failed(t)
                  /\ UNCHANGED ntags
             ELSE IF ~last
               THEN /\ loc' = [loc EXCEPT ![t].vectors_list = stacked,
                                          ![t].i = @ + batch_size]
                    /\ UNCHANGED <<pc, ntags, gindex, heap>>
               ELSE /\ loc' = [loc EXCEPT
                         ![t].vectors_list = stacked,
                         ![t].i = @ + batch_size,
                         ![t].vectors = NewVectors(ntags, stacked),
                         ![t].metadatas = IngestRecords(ntags, l.title, l.url, l.chunks),
                         ![t].outcome = IF Len(stacked) = 0 THEN "returned" ELSE "none",
                         ![t].result = IF Len(stacked) = 0
                                         THEN [status |-> "ingested", url |-> l.url,
                                               chunks |-> Len(l.chunks)]
                                         ELSE <<>>]
                    /\ ntags' = ntags + Len(l.chunks)
                    /\ add_to_index_enter(t, "ret")
                    /\ UNCHANGED <<gindex, heap>>
    /\ UNCHANGED <<indexFile, metaFile, ncalls, overlap, outerVars>>

\* The caller takes the call's result; the locals are gone.
Finish(t) ==
    /\ pc[t] = "ret"
    /\ pc' = [pc EXCEPT ![t] = "idle"]
    /\ loc' = [loc EXCEPT ![t] = InitLoc]
    /\ UNCHANGED <<indexFile, metaFile, gindex, heap, ntags, ncalls, overlap, outerVars>>

(***************************************************************************)
(* ingest_seed_list, seed_ingest.py lines 8-30.  app.py runs it in a       *)
(* background thread; each attempt is a whole call of ingest_url_to_index  *)
(* on that thread.                                                         *)
(***************************************************************************)
SeedThread == 2

\* The lines the seeds file can hold.
SeedLine(kind, url) == [kind |-> kind, url |-> url]
SeedLineChoices ==
    {SeedLine("url", UrlRecipe), SeedLine("url", UrlBare),
     SeedLine("comment", NoUrl), SeedLine("blank", NoUrl)}

SeedFiles == UNION {[1..n -> SeedLineChoices] : n \in 0..MaxSeeds}

\* max_retries as the caller passes it (app.py line 130: any integer).
RetryChoices == {0, 1, 2}

\* What the pages of a seed answer: an error, too little text, enough text.
SeedPrimaryResponses == {Raised, [ok |-> TRUE, raw |-> <<N(300)>>]}
SeedProxyResponses == {Raised, [ok |-> TRUE, raw |-> <<N(119)>>]}

\* line 14: the stripped lines that are neither empty nor comments
RECURSIVE seed_urls(_)
seed_urls(lines) ==
    IF lines = <<>>
      THEN <<>>
      ELSE (IF Head(lines).kind = "url" THEN <<Head(lines).url>> ELSE <<>>)
             \o seed_urls(Tail(lines))

NoSeed ==
    [pc          |-> "idle",  \* "idle" | "try" | "wait" | "done"
     urls        |-> <<>>,    \* urls
     u           |-> 0,       \* the position of url in urls (1-based)
     attempt     |-> 0,       \* attempt
     max_retries |-> 0,       \* max_retries
     success     |-> FALSE,   \* success
     results     |-> <<>>,    \* results
     calls       |-> <<>>,    \* history: the attempts made, with how each ended
     out         |-> <<>>]    \* the value returned

\* Every attempt is made.
RetryLoopDone_OneMore(attempt, max_retries) == attempt > max_retries + 1

\* line 17: for attempt in range(1, max_retries + 1) has run out
RetryLoopDone(attempt, max_retries) == attempt > max_retries

\* Every URL gets a failure entry.
SeedFailed_Always(success) == TRUE

\* line 27: if not success
SeedFailed(success) == ~success

\* line 28: the result "failed", in the shape of a result of ingest_url_to_index
Failed == [status |-> "failed", url |-> NoUrl, chunks |-> -1]

\* line 30: the entries counted as ingested
SeedIngested(results) ==
    Cardinality({i \in 1..Len(results) : results[i].result # Failed})

\* lines 9-16: the file is read; the loop stands before the first URL.
SeedCall(exists, lines, max_retries) ==
    /\ seed.pc = "idle"
    /\ seed.out = <<>>
    /\ pc[SeedThread] = "idle"
    /\ IF ~exists
         THEN seed' = [seed EXCEPT !.pc = "done", !.out = [error |-> "no_seeds"]]
         ELSE seed' = [seed EXCEPT !.pc = "try", !.urls = seed_urls(lines),
                                   !.u = 1, !.attempt = 1, !.success = FALSE,
                                   !.max_retries = max_retries]
    /\ UNCHANGED <<storeVars, liveVars, raceVars>>

\* lines 17-20: the next attempt calls ingest_url_to_index(url).
SeedAttempt ==
    /\ seed.pc = "try"
    /\ seed.u <= Len(seed.urls)
    /\ ~seed.success
    /\ ~RetryLoopDone(seed.attempt, seed.max_retries)
    /\ LET url == seed.urls[seed.u] IN
         loc' = [loc EXCEPT ![SeedThread] =
                   [InitLoc EXCEPT !.op = "ingest", !.url = url, !.M = 1000,
                                   !.variants = Variants(url), !.v = 1, !.attempt = 1,
                                   !.pre = [vecs |-> IndexVecs, meta |-> StoredRecords]]]
    /\ pc' = [pc EXCEPT ![SeedThread] = "f_primary"]
    /\ seed' = [seed EXCEPT !.pc = "wait",
                            !.calls = Append(@, [u |-> seed.u, attempt |-> seed.attempt,
                                                 ended |-> "none"])]
    /\ UNCHANGED <<indexFile, metaFile, gindex, heap, ntags, ncalls, overlap, liveVars, raceVars>>

\* lines 20-26: the call returned (append, success, break) or raised (caught,
\* the next attempt follows).
SeedCollect ==
    /\ seed.pc = "wait"
    /\ pc[SeedThread] = "ret"
    /\ LET l == loc[SeedThread]
           n == Len(seed.calls)
       IN  IF l.outcome = "returned"
             THEN seed' = [seed EXCEPT
                     !.pc = "try", !.success = TRUE,
                     !.results = Append(@, [url |-> seed.urls[seed.u], result |-> l.result]),
                     !.calls = [@ EXCEPT ![n].ended = "returned"]]
             ELSE seed' = [seed EXCEPT
                     !.pc = "try", !.attempt = @ + 1,
                     !.calls = [@ EXCEPT ![n].ended = "raised"]]
    /\ pc' = [pc EXCEPT ![SeedThread] = "idle"]
    /\ loc' = [loc EXCEPT ![SeedThread] = InitLoc]
    /\ UNCHANGED <<indexFile, metaFile, gindex, heap, ntags, ncalls, overlap, liveVars, raceVars>>

\* lines 27-29 and 15-16: the failure entry, then the next URL.
SeedNextUrl ==
    /\ seed.pc = "try"
    /\ seed.u <= Len(seed.urls)
    /\ seed.success \/ RetryLoopDone(seed.attempt, seed.max_retries)
    /\ seed' = [seed EXCEPT
          !.results = IF SeedFailed(seed.success)
                        THEN Append(@, [url |-> seed.urls[seed.u], result |-> Failed])
                        ELSE @,
          !.u = @ + 1, !.attempt = 1, !.success = FALSE]
    /\ UNCHANGED <<storeVars, liveVars, raceVars>>

\* line 30
SeedReturn ==
    /\ seed.pc = "try"
    /\ seed.u > Len(seed.urls)
    /\ seed' = [seed EXCEPT !.pc = "done",
                            !.out = [ingested |-> SeedIngested(seed.results),
                                     details |-> seed.results]]
    /\ UNCHANGED <<storeVars, liveVars, raceVars>>

(***************************************************************************)
(* Strings of realtime_retriever.py.  A string is the sequence of its      *)
(* characters, so that substring tests, counts and splits are computed.    *)
(***************************************************************************)
\* The characters the model's strings are made of, in code point order.
CharOrder ==
    <<" ", "-", ".", "/", ":", "?", "D", "P", "_",
      "a", "b", "c", "d", "e", "f", "g", "h", "i", "j", "l", "m", "n", "o",
      "p", "r", "s", "t", "u", "v", "w", "x", "y", "z">>

Ord(c) == CHOOSE i \in 1..Len(CharOrder) : CharOrder[i] = c

\* str.lower()
LowerChar(c) == IF c = "D" THEN "d" ELSE IF c = "P" THEN "p" ELSE c
lower(str) == [i \in 1..Len(str) |-> LowerChar(str[i])]

\* t occurs in str at position i.
StartsAt(str, t, i) ==
    /\ i >= 1
    /\ i + Len(t) - 1 <= Len(str)
    /\ SubSeq(str, i, i + Len(t) - 1) = t

\* t in str
Contains(str, t) == Len(t) = 0 \/ \E i \in 1..Len(str) : StartsAt(str, t, i)

\* str.endswith(t)
EndsWith(str, t) == StartsAt(str, t, Len(str) - Len(t) + 1)

\* str.count(t) for a non-empty t: occurrences that do not overlap, from the left
RECURSIVE count_from(_, _, _)
count_from(str, t, i) ==
    IF i + Len(t) - 1 > Len(str)
      THEN 0
      ELSE IF StartsAt(str, t, i)
        THEN 1 + count_from(str, t, i + Len(t))
        ELSE count_from(str, t, i + 1)

count(str, t) == count_from(str, t, 1)

\* str.split(): the maximal runs of characters other than whitespace
RECURSIVE split_from(_, _, _)
split_from(str, i, word) ==
    IF i > Len(str)
      THEN (IF word = <<>> THEN <<>> ELSE <<word>>)
      ELSE IF str[i] = " "
        THEN (IF word = <<>> THEN <<>> ELSE <<word>>) \o split_from(str, i + 1, <<>>)
        ELSE split_from(str, i + 1, Append(word, str[i]))

split(str) == split_from(str, 1, <<>>)

\* str.rstrip("/")
RECURSIVE rstrip_slash(_)
rstrip_slash(str) ==
    IF str # <<>> /\ str[Len(str)] = "/"
      THEN rstrip_slash(SubSeq(str, 1, Len(str) - 1))
      ELSE str

\* str.split(c)[-1]: what follows the last c, the whole string when there is none
LastPart(str, c) ==
    LET at == {i \in 1..Len(str) : str[i] = c} IN
      IF at = {} THEN str ELSE SubSeq(str, SetMax(at) + 1, Len(str))

\* a < b as Python compares strings
RECURSIVE StrLess(_, _)
StrLess(a, b) ==
    IF b = <<>> THEN FALSE
    ELSE IF a = <<>> THEN TRUE
    ELSE IF Head(a) = Head(b) THEN StrLess(Tail(a), Tail(b))
    ELSE Ord(Head(a)) < Ord(Head(b))

\* Words and URLs of the model.
Http == <<"h", ":", "/", "/">>
Recipe == <<"r", "e", "c", "i", "p", "e">>
Paneer == <<"p", "a", "n", "e", "e", "r">>
HostA == <<"a", ".", "i", "o">>
HostB == <<"b", ".", "i", "o">>

UrlTwice == Http \o HostA \o <<"/">> \o Paneer \o <<"-">> \o Paneer
UrlDeep ==
    Http \o HostA \o <<"/">> \o Recipe \o <<"/">> \o Paneer \o <<"/">> \o Paneer
         \o <<"/">> \o Paneer \o <<"/", "z">>
UrlKeyword == Http \o HostA \o <<"/">> \o Recipe \o <<"-", "x">>
UrlInner == Http \o HostA \o <<"/">> \o Paneer \o <<"/", "x", "/">>
UrlPlain == Http \o HostA \o <<"/", "x", "/", "y">>
UrlUpper == Http \o HostA \o <<"/", "P">> \o Tail(Paneer) \o <<"-", "f", "r", "y">>
UrlTikka == Http \o HostA \o <<"/">> \o Paneer \o <<"-", "t", "i", "j", "j", "a">>

UrlPool == {UrlTwice, UrlDeep, UrlKeyword, UrlInner, UrlPlain, UrlUpper}

\* A sitemap of 5 URLs of which 2 have "paneer" in the path.
ScenarioUrls == <<UrlKeyword, UrlPlain, UrlTikka, Http \o HostA \o <<"/", "y">>, UrlTwice>>

UrlLists == UNION {[1..n -> UrlPool] : n \in 0..MaxUrls} \cup {ScenarioUrls}

\* The queries: empty, one token, a capital and blanks around two tokens, a
\* token no URL has.
QueryStrings ==
    {<<>>, Paneer, <<" ", "P">> \o Tail(Paneer) \o <<" ", " ", "x", " ">>, <<"j", "j", "j">>}

(***************************************************************************)
(* select_candidates, realtime_retriever.py lines 173-199.                 *)
(***************************************************************************)
CANDIDATE_FETCH == 10    \* line 30

\* line 179: q_tokens = [t for t in query.lower().split() if t]
q_tokens(query) == split(lower(query))

\* lines 187-188: the occurrences of the tokens in ul, summed from token i
RECURSIVE occurrences(_, _, _)
occurrences(ul, tokens, i) ==
    IF i > Len(tokens)
      THEN 0
      ELSE count(ul, tokens[i]) + occurrences(ul, tokens, i + 1)

\* line 189: last = ul.rstrip("/").split("/")[-1]
LastSegment(ul) == LastPart(rstrip_slash(ul), "/")

\* 4 for every occurrence of the token in the last segment.
LastBonus_PerOccurrence(last, t) == 4 * count(last, t)

\* lines 191-192: if t in last: score += 4
LastBonus(last, t) == IF Contains(last, t) THEN 4 ELSE 0

\* lines 190-192: the bonuses of the tokens, summed from token i
RECURSIVE bonuses(_, _, _)
bonuses(last, tokens, i) ==
    IF i > Len(tokens)
      THEN 0
      ELSE LastBonus(last, tokens[i]) + bonuses(last, tokens, i + 1)

\* lines 182-192
url_score(tokens, u) ==
    LET ul == lower(u)
        last == LastSegment(ul)
    IN  (IF Contains(ul, Recipe) THEN 3 ELSE 0)
          + occurrences(ul, tokens, 1) * 2 + bonuses(last, tokens, 1)

\* lines 193-194: the (score, u) pairs of the URLs that score above 0, in
\* the order of the list
RECURSIVE scored_from(_, _, _)
scored_from(tokens, urls, i) ==
    IF i > Len(urls)
      THEN <<>>
      ELSE (IF url_score(tokens, urls[i]) > 0
              THEN <<[score |-> url_score(tokens, urls[i]), u |-> urls[i]]>>
              ELSE <<>>)
             \o scored_from(tokens, urls, i + 1)

\* (score, u) tuples as Python orders them
PairLess(a, b) == a.score < b.score \/ (a.score = b.score /\ StrLess(a.u, b.u))

\* The pairs stay in the order of the list.
sort_reverse_Unsorted(pairs) == pairs

\* line 196: scored.sort(reverse=True)
RECURSIVE sort_reverse(_)
sort_reverse(pairs) ==
    IF pairs = <<>>
      THEN <<>>
      ELSE LET m == CHOOSE i \in 1..Len(pairs) :
                      \A j \in 1..Len(pairs) : ~PairLess(pairs[i], pairs[j])
           IN  <<pairs[m]>>
                 \o sort_reverse(SubSeq(pairs, 1, m - 1) \o SubSeq(pairs, m + 1, Len(pairs)))

\* seq[:n] for n >= 0
Take(seq, n) == SubSeq(seq, 1, Min2(n, Len(seq)))

\* The fallback returns nothing.
fallback_None(urls, top_n) == <<>>

\* line 199: return sitemap_urls[:top_n]
fallback(urls, top_n) == Take(urls, top_n)

select_candidates(query, urls, top_n) ==
    LET scored == scored_from(q_tokens(query), urls, 1)
        ranked == Take(sort_reverse(scored), top_n)
    IN  IF scored # <<>>
          THEN [i \in 1..Len(ranked) |-> ranked[i].u]
          ELSE fallback(urls, top_n)

NoSel == [query |-> <<>>, urls |-> <<>>, top_n |-> 0, result |-> <<>>, done |-> FALSE]

\* A call select_candidates(query, sitemap_urls, top_n) returns.
SelectCandidates ==
    /\ ~sel.done
    /\ sel' = [sel EXCEPT !.result = select_candidates(sel.query, sel.urls, sel.top_n),
                          !.done = TRUE]
    /\ UNCHANGED <<storeVars, seedVars, raceVars, sitemapCache, pageCache, clock, live>>

(***************************************************************************)
(* URL tests of realtime_retriever.py, lines 35-55 and 102-119.            *)
(***************************************************************************)
\* line 35
IMAGE_EXTS ==
    {<<".", "j", "p", "g">>, <<".", "j", "p", "e", "g">>, <<".", "p", "n", "g">>,
     <<".", "w", "e", "b", "p">>, <<".", "g", "i", "f">>, <<".", "s", "v", "g">>,
     <<".", "b", "m", "p">>}

Uploads ==
    <<"/", "w", "p", "-", "c", "o", "n", "t", "e", "n", "t", "/",
      "u", "p", "l", "o", "a", "d", "s", "/">>

\* The positions of str at or after i that hold a character of cs.
PositionsOf(str, cs, i) == {j \in i..Len(str) : str[j] \in cs}

\* str.split(c)[0]: what precedes the first c
FirstPart(str, c) ==
    LET at == PositionsOf(str, {c}, 1) IN
      IF at = {} THEN str ELSE SubSeq(str, 1, SetMin(at) - 1)

\* lines 49-55
url_looks_like_media(u) ==
    LET ul == lower(FirstPart(u, "?")) IN
      \/ Contains(ul, Uploads)
      \/ \E ext \in IMAGE_EXTS : EndsWith(ul, ext)

\* urlparse(u): the URLs of the model begin with scheme:// or hold no colon.
NetlocStart(u) ==
    LET at == PositionsOf(u, {":"}, 1) IN
      IF at # {} /\ StartsAt(u, <<"/", "/">>, SetMin(at) + 1) THEN SetMin(at) + 3 ELSE 0

\* urlparse(u).netloc
netloc(u) ==
    LET from == NetlocStart(u)
        ends == PositionsOf(u, {"/", "?"}, from)
    IN  IF from = 0 THEN <<>>
        ELSE SubSeq(u, from, IF ends = {} THEN Len(u) ELSE SetMin(ends) - 1)

\* urlparse(u).path
path(u) ==
    LET from == NetlocStart(u)
        start == IF from = 0 THEN 1
                 ELSE IF PositionsOf(u, {"/", "?"}, from) = {} THEN Len(u) + 1
                 ELSE SetMin(PositionsOf(u, {"/", "?"}, from))
        stops == PositionsOf(u, {"?"}, start)
    IN  SubSeq(u, start, IF stops = {} THEN Len(u) ELSE SetMin(stops) - 1)

\* line 115: the segments of the path that are not empty (their number)
RECURSIVE segments_from(_, _, _)
segments_from(p, i, open) ==
    IF i > Len(p)
      THEN (IF open THEN 1 ELSE 0)
      ELSE IF p[i] = "/"
        THEN (IF open THEN 1 ELSE 0) + segments_from(p, i + 1, FALSE)
        ELSE segments_from(p, i + 1, TRUE)

\* lines 102-119
is_recipe_url(u) ==
    LET u_low == lower(u)
        p == path(u_low)
    IN  /\ ~url_looks_like_media(u_low)
        /\ \/ Contains(u_low, Recipe)
           \/ /\ segments_from(p, 1, FALSE) >= 2
              /\ ~\E ext \in IMAGE_EXTS : EndsWith(p, ext)

\* set(seq)
Elements(seq) == {seq[i] : i \in 1..Len(seq)}

\* sorted(S) for a set of strings
RECURSIVE sorted(_)
sorted(S) ==
    IF S = {}
      THEN <<>>
      ELSE LET m == CHOOSE x \in S : \A y \in S : ~StrLess(y, x)
           IN  <<m>> \o sorted(S \ {m})

(***************************************************************************)
(* load_sitemap_urls, realtime_retriever.py lines 121-171.                 *)
(***************************************************************************)
SitemapTtl == 24 * 3600    \* line 129

SitemapXml == <<"/", "s", ".", "x", "m", "l">>
SitemapA == Http \o HostA \o SitemapXml
SitemapB == Http \o HostB \o SitemapXml
SitemapChoices == {SitemapA, SitemapB}

UrlJpg == Http \o HostA \o <<"/">> \o Recipe \o <<"/", "x", ".", "j", "p", "g">>
UrlUpload == Http \o HostA \o Uploads \o <<"x">>
UrlShort == Http \o HostA \o <<"/", "y">>
UrlNoScheme == HostA \o <<"/">> \o Recipe \o <<"-", "q">>
UrlOnB == Http \o HostB \o <<"/">> \o Recipe \o <<"-", "y">>

\* The <loc> entries two child sitemaps answer with.
LocsMixed == <<UrlPlain, UrlKeyword, UrlJpg, UrlOnB, UrlKeyword, UrlShort, UrlNoScheme>>
LocsOther == <<UrlOnB, UrlDeep, UrlUpload>>

\* What the site answers to one refresh: the index request fails or names
\* child sitemaps; each child request fails or yields <loc> entries.
ChildFails == [ok |-> FALSE, locs |-> <<>>]
ChildYields(locs) == [ok |-> TRUE, locs |-> locs]
WebChoices ==
    {[index_ok |-> FALSE, children |-> <<>>],
     [index_ok |-> TRUE, children |-> <<ChildFails>>],
     [index_ok |-> TRUE, children |-> <<ChildYields(LocsOther)>>],
     [index_ok |-> TRUE, children |-> <<ChildYields(LocsMixed), ChildFails>>],
     [index_ok |-> TRUE, children |-> <<ChildYields(LocsOther), ChildYields(LocsMixed)>>]}

NoCache == [st |-> "missing", base |-> <<>>, urls |-> <<>>, fetched_at |-> 0]

NoLive ==
    [op       |-> "none",  \* "sitemap" | "page" | "query"
     arg      |-> <<>>,    \* the URL or query the call was made with
     k        |-> 0,       \* query_live: k
     result   |-> <<>>,    \* the value returned
     outcome  |-> "none",  \* "returned" | "raised"
     requests |-> <<>>,    \* history: the network requests the call made
     pre      |-> NoCache, \* history: the sitemap cache as the call found it
     post     |-> NoCache, \* history: the sitemap cache as the call left it
     locs     |-> <<>>,    \* history: the <loc> entries the call fetched
     wrote    |-> FALSE,   \* history: the call wrote the sitemap cache
     got      |-> "none",  \* history: "media" | "cached" | "fetched" | "failed"
     ppre     |-> <<>>,    \* history: the page cache as the call found it
     ppost    |-> <<>>,    \* history: the page cache as the call left it
     pc       |-> "done",  \* query_live: "fetch" | "rank" | "done"
     sitemap_urls |-> <<>>, \* query_live: sitemap_urls
     candidates |-> <<>>,  \* query_live: candidates
     docs     |-> <<>>,    \* query_live: docs
     at       |-> 0,       \* history: the time of the call
     pages    |-> <<>>]    \* history: what fetch_text gave for each candidate

\* No entry counts as fresh.
cache_is_fresh_Never(cache, now) == FALSE

\* lines 126-132: the entry is readable and less than 24 hours old
cache_is_fresh(cache, now) ==
    cache.st = "ok" /\ now - cache.fetched_at < SitemapTtl

\* lines 143-153: the <loc> entries of the children that answered, in order
RECURSIVE all_locs(_)
all_locs(children) ==
    IF children = <<>>
      THEN <<>>
      ELSE (IF Head(children).ok THEN Head(children).locs ELSE <<>>)
             \o all_locs(Tail(children))

\* Every <loc> entry is kept.
filtered_Unfiltered(sitemap_index_url, locs) == sorted(Elements(locs))

\* lines 155-166
filtered(sitemap_index_url, locs) ==
    sorted({u \in Elements(locs) :
              /\ netloc(u) = netloc(sitemap_index_url)
              /\ is_recipe_url(u)
              /\ ~url_looks_like_media(u)})

\* lines 134-153: the requests of a refresh
sitemap_requests(web) ==
    <<"index">> \o (IF web.index_ok THEN [i \in 1..Len(web.children) |-> "child"] ELSE <<>>)

\* The refreshed list is merged into the entry.
refreshed_entry_Merged(cache, sitemap_index_url, urls, now) ==
    [st |-> "ok", base |-> sitemap_index_url,
     urls |-> sorted(Elements(cache.urls) \cup Elements(urls)), fetched_at |-> now]

\* line 168: the entry written by a refresh
refreshed_entry(cache, sitemap_index_url, urls, now) ==
    [st |-> "ok", base |-> sitemap_index_url, urls |-> urls, fetched_at |-> now]

\* How a write of a cache file ends: written; open() raised and the file
\* is as it was; pickle.dump raised after open() had truncated the file.
WriteOutcomes == {"ok", "unopened", "torn"}

\* The effect of load_sitemap_urls(sitemap_index_url) on the cache, with
\* what it returns and the requests it made.  An exception of the write of
\* the cache is passed over (lines 167-170).
load_sitemap_urls(sitemap_index_url, web, w) ==
    IF cache_is_fresh(sitemapCache, clock)
      THEN [cache |-> sitemapCache, urls |-> sitemapCache.urls, requests |-> <<>>,
            locs |-> <<>>, wrote |-> FALSE]
      ELSE LET locs == IF web.index_ok THEN all_locs(web.children) ELSE <<>>
               urls == filtered(sitemap_index_url, locs)
           IN  [cache |-> IF w = "ok"
                            THEN refreshed_entry(sitemapCache, sitemap_index_url, urls, clock)
                            ELSE IF w = "torn" THEN [NoCache EXCEPT !.st = "corrupt"]
                            ELSE sitemapCache,
                urls |-> urls,
                requests |-> sitemap_requests(web),
                locs |-> locs,
                wrote |-> (w = "ok")]

\* A call load_sitemap_urls(sitemap_index_url).
LoadSitemap(sitemap_index_url, web, w) ==
    LET r == load_sitemap_urls(sitemap_index_url, web, w) IN
      /\ sitemapCache' = r.cache
      /\ live' = [NoLive EXCEPT !.op = "sitemap", !.arg = sitemap_index_url,
                                !.result = r.urls, !.outcome = "returned",
                                !.requests = r.requests, !.pre = sitemapCache,
                                !.post = r.cache, !.locs = r.locs,
                                !.wrote = r.wrote, !.at = clock]
      /\ UNCHANGED <<storeVars, seedVars, raceVars, sel, pageCache, clock>>

\* Time passes.
Tick(d) ==
    /\ clock + d <= MaxDays * SitemapTtl
    /\ clock' = clock + d
    /\ UNCHANGED <<storeVars, seedVars, raceVars, sel, sitemapCache, pageCache, live>>

\* The cache file is lost or damaged.
DamageSitemapCache(st) ==
    /\ sitemapCache.st = "ok"
    /\ sitemapCache' = [NoCache EXCEPT !.st = st]
    /\ UNCHANGED <<storeVars, seedVars, raceVars, sel, pageCache, clock, live>>

(***************************************************************************)
(* load_sitemap_urls called by several threads at once, lines 121-171.     *)
(* Nothing guards SITEMAP_CACHE: a call stands before the read of the      *)
(* cache (lines 126-132), before the requests (134-166), before line 168,  *)
(* or inside pickle.dump.  Line 168 builds the entry, opens the file with  *)
(* "wb", which empties it, and pickle.dump writes the pickle from the      *)
(* start of the file, one write per frame of the pickle; every open file   *)
(* keeps its own position.  Frames are taken to be of one length, so that  *)
(* the frames of two pickles line up in the file.                          *)
(***************************************************************************)
Callers == 1..2

\* The URLs one frame of the pickle holds: an entry of fewer URLs is
\* written by a single write.
FrameSize == 2

NoBlock == [base |-> <<>>, urls |-> <<>>, last |-> FALSE, fetched_at |-> 0, hole |-> TRUE]

NoRefreshCall ==
    [pc      |-> "idle",   \* "idle" | "read" | "fetch" | "open" | "write"
     arg     |-> <<>>,     \* sitemap_index_url
     urls    |-> <<>>,     \* filtered
     todo    |-> <<>>,     \* the frames pickle.dump has still to write
     off     |-> 0,        \* the position of the call's open file, in frames
     calls   |-> 0,        \* history: calls begun so far
     from    |-> "none",   \* history: "cache" | "refresh", what the last call returned
     result  |-> <<>>]     \* history: the value the last call returned

NoRefresh ==
    [file    |-> <<>>,     \* the frames in SITEMAP_CACHE
     call    |-> [c \in Callers |-> NoRefreshCall],
     entries |-> {},       \* history: the entries the refreshes built at line 168
     raced   |-> FALSE]    \* history: a refresh opened the file while another was at line 168

\* Every entry is written in two writes.
frames_TwoWrites(entry) ==
    <<[base |-> entry.base, urls |-> entry.urls, last |-> FALSE, fetched_at |-> 0, hole |-> FALSE],
      [base |-> <<>>, urls |-> <<>>, last |-> TRUE, fetched_at |-> entry.fetched_at, hole |-> FALSE]>>

\* line 168, pickle.dump: the frames of the pickle of {"base", "urls",
\* "fetched_at"}, in the order of the keys
frames(entry) ==
    LET n  == Len(entry.urls)
        nb == (n \div FrameSize) + 1
    IN  [i \in 1..nb |->
           [base |-> IF i = 1 THEN entry.base ELSE <<>>,
            urls |-> SubSeq(entry.urls, (i - 1) * FrameSize + 1,
                            IF i * FrameSize < n THEN i * FrameSize ELSE n),
            last |-> (i = nb),
            fetched_at |-> IF i = nb THEN entry.fetched_at ELSE 0,
            hole |-> FALSE]]

\* A write of one frame at position off of a file: a write past the end
\* leaves a hole before it.
write_at(file, off, b) ==
    LET len == IF Len(file) > off + 1 THEN Len(file) ELSE off + 1 IN
      [i \in 1..len |-> IF i = off + 1 THEN b
                        ELSE IF i <= Len(file) THEN file[i] ELSE NoBlock]

RECURSIVE urls_upto(_, _)
urls_upto(file, k) ==
    IF k = 0 THEN <<>> ELSE urls_upto(file, k - 1) \o file[k].urls

\* line 128, pickle.load: the pickle ends at its first closing frame and
\* what follows it in the file is not read; a file that is empty, has a
\* hole or no closing frame does not load.
unpickled(file) ==
    LET ends == {k \in 1..Len(file) : file[k].last /\ ~file[k].hole} IN
      IF ends = {}
        THEN [NoCache EXCEPT !.st = "corrupt"]
        ELSE LET k == CHOOSE e \in ends : \A o \in ends : e <= o IN
               IF \E j \in 1..k : file[j].hole
                 THEN [NoCache EXCEPT !.st = "corrupt"]
                 ELSE [st |-> "ok", base |-> file[1].base,
                       urls |-> urls_upto(file, k),
                       fetched_at |-> file[k].fetched_at]

\* A thread calls load_sitemap_urls(sitemap_index_url).
RefreshCall(c, sitemap_index_url) ==
    /\ refresh.call[c].pc = "idle"
    /\ refresh.call[1].calls + refresh.call[2].calls < MaxRefreshes
    /\ refresh' = [refresh EXCEPT
                     !.call[c] = [NoRefreshCall EXCEPT
                                    !.pc = "read", !.arg = sitemap_index_url,
                                    !.calls = refresh.call[c].calls + 1]]
    /\ UNCHANGED <<storeVars, seedVars, liveVars>>

\* lines 126-132: a fresh entry is returned, anything else is passed over
RefreshRead(c) ==
    /\ refresh.call[c].pc = "read"
    /\ refresh' = [refresh EXCEPT
                     !.call[c] = IF cache_is_fresh(sitemapCache, clock)
                                   THEN [@ EXCEPT !.pc = "idle", !.from = "cache",
                                                  !.result = sitemapCache.urls]
                                   ELSE [@ EXCEPT !.pc = "fetch"]]
    /\ UNCHANGED <<storeVars, seedVars, liveVars>>

\* lines 134-166: the requests and the filter
RefreshFetch(c, web) ==
    /\ refresh.call[c].pc = "fetch"
    /\ refresh' = [refresh EXCEPT
                     !.call[c].pc = "open",
                     !.call[c].urls =
                        filtered(refresh.call[c].arg,
                                 IF web.index_ok THEN all_locs(web.children) ELSE <<>>)]
    /\ UNCHANGED <<storeVars, seedVars, liveVars>>

\* line 168: the entry is built with the time of now and the file is
\* opened, which empties it; d is the time that passed since the last look
\* at the clock.
RefreshOpen(c, d) ==
    /\ refresh.call[c].pc = "open"
    /\ clock' = clock + d
    /\ LET entry == refreshed_entry(sitemapCache, refresh.call[c].arg,
                                    refresh.call[c].urls, clock + d)
       IN  refresh' = [refresh EXCEPT
                         !.file = <<>>,
                         !.entries = @ \cup {entry},
                         !.raced = @ \/ \E o \in Callers \ {c} :
                                            refresh.call[o].pc \in {"open", "write"},
                         !.call[c].pc = "write",
                         !.call[c].off = 0,
                         !.call[c].todo = frames(entry)]
    /\ sitemapCache' = unpickled(<<>>)
    /\ UNCHANGED <<storeVars, seedVars, sel, pageCache, live>>

\* line 168, inside pickle.dump: the next frame is written; after the last
\* one the file is closed and filtered is returned (line 171).
RefreshWrite(c) ==
    /\ refresh.call[c].pc = "write"
    /\ LET me   == refresh.call[c]
           file == write_at(refresh.file, me.off, Head(me.todo))
       IN  /\ refresh' = [refresh EXCEPT
                            !.file = file,
                            !.call[c] = IF Len(me.todo) = 1
                                          THEN [me EXCEPT !.pc = "idle", !.todo = <<>>,
                                                          !.off = me.off + 1,
                                                          !.from = "refresh",
                                                          !.result = me.urls]
                                          ELSE [me EXCEPT !.todo = Tail(me.todo),
                                                          !.off = me.off + 1]]
           /\ sitemapCache' = unpickled(file)
    /\ UNCHANGED <<storeVars, seedVars, sel, pageCache, clock, live>>

(***************************************************************************)
(* fetch_text, realtime_retriever.py lines 57-100.                         *)
(***************************************************************************)
FilenameMax == 200    \* line 60

\* c.isalnum() or c in "_-."
KeptInFilename(c) == c \notin {" ", "/", ":", "?"}

\* lines 58-60: "://", "/", "?" and "&" become "_", other characters that
\* are no letters, digits or "_-." are dropped, 200 characters are kept
RECURSIVE filename_from(_, _)
filename_from(url, i) ==
    IF i > Len(url)
      THEN <<>>
      ELSE IF StartsAt(url, <<":", "/", "/">>, i)
        THEN <<"_">> \o filename_from(url, i + 3)
        ELSE IF url[i] \in {"/", "?"}
          THEN <<"_">> \o filename_from(url, i + 1)
          ELSE (IF KeptInFilename(url[i]) THEN <<url[i]>> ELSE <<>>)
                 \o filename_from(url, i + 1)

url_to_filename(url) == Take(filename_from(url, 1), FilenameMax)

\* A URL whose file name is that of UrlPlain.
UrlUnder == Http \o HostA \o <<"/", "x", "_", "y">>

\* The URLs fetch_text is called with, and the files of the page cache.
PageUrls ==
    {UrlPlain, UrlUnder, UrlKeyword, UrlDeep, UrlOnB, UrlJpg, UrlUpload}
PageKeys == {url_to_filename(u) : u \in PageUrls}

NoPage == [st |-> "missing", data |-> [url |-> <<>>, title |-> <<>>, text |-> <<>>]]

\* What a page answers: the request or the parsing raised, or a title, the
\* text of the readable part and the text of the whole page.
PageFails == [ok |-> FALSE, title |-> <<>>, summary |-> <<>>, html |-> <<>>]
PageYields(title, summary, html) ==
    [ok |-> TRUE, title |-> title, summary |-> summary, html |-> html]
PageResponses ==
    {PageFails,
     PageYields(<<"t">>, <<W(2), N(1500), W(1)>>, <<N(2000)>>),
     PageYields(<<>>, <<W(3)>>, <<W(1), N(30)>>),
     PageYields(<<"t">>, <<>>, <<W(4)>>)}

\* lines 68 and 100
EmptyPage(url) == [url |-> url, title |-> <<>>, text |-> <<>>]

\* Every file is taken for absent.
page_cache_hit_Never(entry) == FALSE

\* lines 73-77: the file exists and unpickles
page_cache_hit(entry) == entry.st = "ok"

\* lines 83-91
extracted(url, resp) ==
    LET text == strip(resp.summary) IN
      [url |-> url, title |-> resp.title,
       text |-> IF text = <<>> THEN strip(resp.html) ELSE text]

\* A failed request leaves an (empty) entry behind.
page_written_Always(cache, key, resp, out, w) ==
    [cache EXCEPT ![key] = [st |-> "ok", data |-> out]]

\* lines 92-95: the page cache after a request; an exception of the write
\* is passed over
page_written(cache, key, resp, out, w) ==
    IF ~resp.ok \/ w = "unopened"
      THEN cache
      ELSE IF w = "torn"
        THEN [cache EXCEPT ![key] = [NoPage EXCEPT !.st = "corrupt"]]
        ELSE [cache EXCEPT ![key] = [st |-> "ok", data |-> out]]

\* The effect of fetch_text(url) on the page cache, with what it returns and
\* the number of requests it made.
fetch_text(cache, url, resp, w) ==
    LET key == url_to_filename(url)
        out == IF resp.ok THEN extracted(url, resp) ELSE EmptyPage(url)
    IN  IF url_looks_like_media(url)
          THEN [page |-> EmptyPage(url), requests |-> 0, cache |-> cache, got |-> "media"]
          ELSE IF page_cache_hit(cache[key])
            THEN [page |-> cache[key].data, requests |-> 0, cache |-> cache,
                  got |-> "cached"]
            ELSE [page |-> out, requests |-> 1,
                  cache |-> page_written(cache, key, resp, out, w),
                  got |-> IF resp.ok THEN "fetched" ELSE "failed"]

\* A call fetch_text(url).
FetchText(url, resp, w) ==
    LET r == fetch_text(pageCache, url, resp, w) IN
      /\ pageCache' = r.cache
      /\ live' = [NoLive EXCEPT !.op = "page", !.arg = url, !.result = r.page,
                                !.outcome = "returned",
                                !.requests = [i \in 1..r.requests |-> "page"],
                                !.at = clock, !.ppre = pageCache, !.ppost = r.cache,
                                !.got = r.got,
                                !.wrote = (r.requests = 1 /\ resp.ok /\ w = "ok")]
      /\ UNCHANGED <<storeVars, seedVars, raceVars, sel, sitemapCache, clock>>

(***************************************************************************)
(* query_live, realtime_retriever.py lines 224-267.  A call runs in steps: *)
(* the sitemap URLs and the candidates, one fetch_text per candidate, then *)
(* the embedding and the ranking.  The embedder is outside the repository: *)
(* it raises or gives similarities in any order.                           *)
(***************************************************************************)
LiveSnippetMax == 1000    \* line 242

\* text[:n] of a run-length text
RECURSIVE TTake(_, _)
TTake(text, n) ==
    IF text = <<>> \/ n <= 0
      THEN <<>>
      ELSE IF Head(text).n >= n
        THEN <<[Head(text) EXCEPT !.n = n]>>
        ELSE <<Head(text)>> \o TTake(Tail(text), n - Head(text).n)

\* line 242: the first 1000 characters and "..." when there are more
live_snippet(text) ==
    [text |-> TTake(text, LiveSnippetMax), dots |-> TLen(text) > LiveSnippetMax]

\* Every page counts as a document.
kept_doc_Always(text) == TRUE

\* line 244: if text.strip()
kept_doc(text) == strip(text) # <<>>

\* lines 239-245: docs after the page of candidate u
docs_with(docs, u, page) ==
    IF kept_doc(page.text)
      THEN Append(docs, [url |-> u, title |-> page.title, text |-> page.text,
                         snippet |-> live_snippet(page.text)])
      ELSE docs

\* seq[:k] of Python, k negative included
slice_to(seq, k) ==
    IF k >= 0 THEN Take(seq, k) ELSE Take(seq, Max2(Len(seq) + k, 0))

\* np.argsort(-sims) for similarities the model leaves open: any order
ArgSorts(n) ==
    {f \in [1..n -> 1..n] : \A i, j \in 1..n : f[i] = f[j] => i = j}

\* lines 260-266
live_results(docs, order, k) ==
    LET ranked_idx == slice_to(order, k) IN
      [i \in 1..Len(ranked_idx) |->
          LET d == docs[ranked_idx[i]] IN
            [title |-> IF d.title # <<>> THEN d.title ELSE d.url,
             url |-> d.url, snippet |-> d.snippet]]

\* lines 228-232: the call up to the candidates
QueryLiveCall(query, sitemap_index_url, k, web, w) ==
    LET r == load_sitemap_urls(sitemap_index_url, web, w)
        call == [NoLive EXCEPT !.op = "query", !.arg = query, !.k = k,
                               !.sitemap_urls = r.urls, !.at = clock]
    IN  /\ live.pc = "done"
        /\ sitemapCache' = r.cache
        /\ live' = IF r.urls = <<>>
                     THEN [call EXCEPT !.outcome = "returned"]
                     ELSE [call EXCEPT !.pc = "fetch",
                             !.candidates =
                                select_candidates(query, r.urls, CANDIDATE_FETCH)]
        /\ UNCHANGED <<storeVars, seedVars, raceVars, sel, pageCache, clock>>

\* lines 237-247: one turn of the loop over the candidates
QueryFetch(resp, w) ==
    /\ live.pc = "fetch"
    /\ Len(live.pages) < Len(live.candidates)
    /\ LET u == live.candidates[Len(live.pages) + 1]
           r == fetch_text(pageCache, u, resp, w)
       IN  /\ pageCache' = r.cache
           /\ live' = [live EXCEPT
                         !.pages = Append(@, [url |-> u, text |-> r.page.text,
                                              got |-> r.got]),
                         !.docs = docs_with(@, u, r.page)]
    /\ UNCHANGED <<storeVars, seedVars, raceVars, sel, sitemapCache, clock>>

\* lines 249-267: no document, or the embedding and the ranking
QueryRank(embed_ok, order) ==
    /\ live.pc = "fetch"
    /\ Len(live.pages) = Len(live.candidates)
    /\ order \in ArgSorts(Len(live.docs))
    /\ live' = IF live.docs = <<>>
                 THEN [live EXCEPT !.pc = "done", !.outcome = "returned"]
                 ELSE IF ~embed_ok
                   THEN [live EXCEPT !.pc = "done", !.outcome = "raised",
                                     !.got = "embedder raised"]
                   ELSE [live EXCEPT !.pc = "done", !.outcome = "returned",
                           !.result = live_results(live.docs, order, live.k)]
    /\ UNCHANGED <<storeVars, seedVars, raceVars, sel, sitemapCache, pageCache, clock>>

(***************************************************************************)
(* The environment: the process dies and starts again (the module globals  *)
(* are gone, the files stay), an artifact is lost or damaged.              *)
(***************************************************************************)
Restart ==
    /\ gindex # None
    /\ gindex' = None
    /\ heap' = [o \in Threads |-> <<>>]
    /\ pc' = [t \in Threads |-> "idle"]
    /\ loc' = [t \in Threads |-> InitLoc]
    /\ UNCHANGED <<indexFile, metaFile, ntags, ncalls, overlap, outerVars>>

DamageIndexFile(st) ==
    /\ indexFile.st = "ok"
    /\ indexFile' = [st |-> st, data |-> <<>>]
    /\ UNCHANGED <<metaFile, gindex, heap, pc, loc, ntags, ncalls, overlap, outerVars>>

DamageMetaFile(st) ==
    /\ metaFile.st = "ok"
    /\ metaFile' = [st |-> st, data |-> <<>>]
    /\ UNCHANGED <<indexFile, gindex, heap, pc, loc, ntags, ncalls, overlap, outerVars>>

StoreInit ==
    /\ indexFile = NoFile
    /\ metaFile = NoFile
    /\ gindex = None
    /\ heap = [o \in Threads |-> <<>>]
    /\ pc = [t \in Threads |-> "idle"]
    /\ loc = [t \in Threads |-> InitLoc]
    /\ ntags = 0
    /\ ncalls = 0
    /\ overlap = FALSE

LiveInit ==
    /\ sitemapCache = NoCache
    /\ pageCache = [key \in PageKeys |-> NoPage]
    /\ clock = 0
    /\ live = NoLive
    /\ refresh = NoRefresh

Init ==
    /\ StoreInit
    /\ seed = NoSeed
    /\ sel = NoSel
    /\ LiveInit

Batches == UNION {[1..n -> VecChoices] : n \in 0..MaxBatch}

\* Batches of equal vectors, where no search ranks them.
PlainBatches == {[i \in 1..n |-> <<1, 0>>] : n \in 0..MaxBatch}

(***************************************************************************)
(* Spec: one thread adds and searches; every write succeeds.               *)
(***************************************************************************)
Next ==
    \/ \E vals \in Batches : AddCall(1, vals, Len(vals))
    \/ AddEnsure(1)
    \/ AddCreate(1)
    \/ AddAppend(1)
    \/ AddLoad(1)
    \/ PersistIndex(1, TRUE, FALSE)
    \/ PersistOpen(1, TRUE)
    \/ PersistDump(1, TRUE)
    \/ \E q \in QueryChoices, k \in 1..MaxK : SearchCall(1, q, k)
    \/ SearchEnsure(1)
    \/ SearchCreate(1)
    \/ SearchIndex(1)
    \/ SearchLoad(1)
    \/ Finish(1)

Spec == Init /\ [][Next]_vars

(***************************************************************************)
(* SpecRace: two threads add with no lock between them; every write        *)
(* succeeds.                                                               *)
(***************************************************************************)
NextRace ==
    \E t \in Threads :
        \/ \E vals \in PlainBatches : AddCall(t, vals, Len(vals))
        \/ AddEnsure(t)
        \/ AddCreate(t)
        \/ AddAppend(t)
        \/ AddLoad(t)
        \/ PersistIndex(t, TRUE, FALSE)
        \/ PersistOpen(t, TRUE)
        \/ PersistDump(t, TRUE)
        \/ Finish(t)

SpecRace == Init /\ [][NextRace]_vars

(***************************************************************************)
(* SpecFault: one thread adds and searches; a write may fail, the process  *)
(* may restart, an artifact may be lost or damaged.                        *)
(***************************************************************************)
NextFault ==
    \/ \E vals \in PlainBatches : AddCall(1, vals, Len(vals))
    \/ AddEnsure(1)
    \/ AddCreate(1)
    \/ AddAppend(1)
    \/ AddLoad(1)
    \/ \E ok \in BOOLEAN, damaged \in BOOLEAN : PersistIndex(1, ok, damaged)
    \/ \E ok \in BOOLEAN : PersistOpen(1, ok)
    \/ \E ok \in BOOLEAN : PersistDump(1, ok)
    \/ \E q \in QueryChoices, k \in 1..MaxK : SearchCall(1, q, k)
    \/ SearchEnsure(1)
    \/ SearchCreate(1)
    \/ SearchIndex(1)
    \/ SearchLoad(1)
    \/ Finish(1)
    \/ Restart
    \/ \E st \in {"missing", "corrupt"} : DamageIndexFile(st)
    \/ \E st \in {"missing", "corrupt"} : DamageMetaFile(st)

SpecFault == Init /\ [][NextFault]_vars

(***************************************************************************)
(* SpecIngest: one thread ingests URLs; a request, the extraction and the  *)
(* embedder may fail, every write succeeds.                                *)
(***************************************************************************)
NextIngest ==
    \/ \E c \in IngestChoices : IngestCall(1, c.url, c.M)
    \/ \E r \in PrimaryResponses : FetchPrimary(1, r)
    \/ \E r \in ProxyResponses : FetchProxy(1, r)
    \/ IngestChunk(1)
    \/ \E ok \in BOOLEAN : IngestEmbed(1, ok)
    \/ AddEnsure(1)
    \/ AddCreate(1)
    \/ AddAppend(1)
    \/ AddLoad(1)
    \/ PersistIndex(1, TRUE, FALSE)
    \/ PersistOpen(1, TRUE)
    \/ PersistDump(1, TRUE)
    \/ Finish(1)

SpecIngest == Init /\ [][NextIngest]_vars

(***************************************************************************)
(* SpecSeed: the background thread ingests the seeds file; a request, the  *)
(* extraction and the embedder may fail, every write succeeds.             *)
(***************************************************************************)
NextSeed ==
    \/ \E exists \in BOOLEAN, lines \in SeedFiles, r \in RetryChoices :
          SeedCall(exists, lines, r)
    \/ SeedAttempt
    \/ \E r \in SeedPrimaryResponses : FetchPrimary(SeedThread, r)
    \/ \E r \in SeedProxyResponses : FetchProxy(SeedThread, r)
    \/ IngestChunk(SeedThread)
    \/ \E ok \in BOOLEAN : IngestEmbed(SeedThread, ok)
    \/ AddEnsure(SeedThread)
    \/ AddCreate(SeedThread)
    \/ AddAppend(SeedThread)
    \/ AddLoad(SeedThread)
    \/ PersistIndex(SeedThread, TRUE, FALSE)
    \/ PersistOpen(SeedThread, TRUE)
    \/ PersistDump(SeedThread, TRUE)
    \/ SeedCollect
    \/ SeedNextUrl
    \/ SeedReturn

SpecSeed == Init /\ [][NextSeed]_vars

(***************************************************************************)
(* app.py: /ingest_url runs ingest_url_to_index on the thread that handles *)
(* the request (thread 1); /ingest_seeds starts ingest_seed_list on a new  *)
(* thread and returns at once.  No route takes a lock.                     *)
(***************************************************************************)
RequestThread == 1

\* lines 75-89
api_ingest_url(url) == IngestCall(RequestThread, url, 1000)

\* lines 117-141: threading.Thread(target=_bg).start()
api_ingest_seeds(exists, lines, max_retries) == SeedCall(exists, lines, max_retries)

(***************************************************************************)
(* background thread runs; every page answers and every write succeeds.    *)
(***************************************************************************)
ServiceSeedFiles ==
    {<<SeedLine("url", UrlRecipe)>>,
     <<SeedLine("comment", NoUrl), SeedLine("url", UrlBare)>>}

NextService ==
    \/ api_ingest_url(UrlRecipe)
    \/ \E lines \in ServiceSeedFiles : api_ingest_seeds(TRUE, lines, 1)
    \/ SeedAttempt
    \/ SeedCollect
    \/ SeedNextUrl
    \/ SeedReturn
    \/ Finish(RequestThread)
    \/ \E t \in Threads :
          \/ FetchPrimary(t, [ok |-> TRUE, raw |-> <<N(300)>>])
          \/ IngestChunk(t)
          \/ IngestEmbed(t, TRUE)
          \/ AddEnsure(t)
          \/ AddCreate(t)
          \/ AddAppend(t)
          \/ AddLoad(t)
          \/ PersistIndex(t, TRUE, FALSE)
          \/ PersistOpen(t, TRUE)
          \/ PersistDump(t, TRUE)

SpecService == Init /\ [][NextService]_vars

(***************************************************************************)
(* SpecRefreshRace: two threads call load_sitemap_urls for one sitemap,    *)
(* over a cache that starts missing; a child sitemap may fail to answer,   *)
(* every write succeeds.                                                   *)
(***************************************************************************)
RaceWebChoices ==
    {[index_ok |-> TRUE, children |-> <<ChildFails>>],
     [index_ok |-> TRUE, children |-> <<ChildYields(LocsOther)>>],
     [index_ok |-> TRUE, children |-> <<ChildYields(LocsMixed)>>],
     [index_ok |-> TRUE, children |-> <<ChildYields(LocsOther), ChildYields(LocsMixed)>>]}

NextRefreshRace ==
    \E c \in Callers :
       \/ RefreshCall(c, SitemapA)
       \/ RefreshRead(c)
       \/ \E web \in RaceWebChoices : RefreshFetch(c, web)
       \/ \E d \in {0, 1} : RefreshOpen(c, d)
       \/ RefreshWrite(c)

SpecRefreshRace == Init /\ [][NextRefreshRace]_vars

(***************************************************************************)
(* SpecSelect: select_candidates is called on a query, a list of URLs and  *)
(* a top_n of at least 1.                                                  *)
(***************************************************************************)
InitSelect ==
    /\ StoreInit
    /\ seed = NoSeed
    /\ LiveInit
    /\ sel \in {[NoSel EXCEPT !.query = q, !.urls = us, !.top_n = n] :
                  q \in QueryStrings, us \in UrlLists, n \in 1..MaxTopN}

NextSelect == SelectCandidates

SpecSelect == InitSelect /\ [][NextSelect]_vars

(***************************************************************************)
(* SpecSitemap: load_sitemap_urls is called for one sitemap and another    *)
(* while time passes; the site may fail to answer, the cache file may be   *)
(* lost or damaged and its write may fail.                                 *)
(***************************************************************************)
NextSitemap ==
    \/ \E s \in SitemapChoices, web \in WebChoices, w \in WriteOutcomes :
          LoadSitemap(s, web, w)
    \/ \E d \in {SitemapTtl, SitemapTtl - 1} : Tick(d)
    \/ \E st \in {"missing", "corrupt"} : DamageSitemapCache(st)

SpecSitemap == Init /\ [][NextSitemap]_vars

(***************************************************************************)
(* SpecPage: fetch_text is called for pages and media files while time     *)
(* passes; a request or the parsing may fail, and so may the write of the  *)
(* cache file.                                                             *)
(***************************************************************************)
FetchChoices == {UrlPlain, UrlUnder, UrlJpg, UrlUpload}

NextPage ==
    \/ \E u \in FetchChoices, resp \in PageResponses, w \in WriteOutcomes :
          FetchText(u, resp, w)
    \/ \E d \in {SitemapTtl, SitemapTtl - 1} : Tick(d)

SpecPage == Init /\ [][NextPage]_vars

(***************************************************************************)
(* SpecLive: queries run one after the other against one sitemap; sitemap  *)
(* requests, page requests, the parsing, the cache writes and the embedder *)
(* may each fail.                                                          *)
(***************************************************************************)
LiveQueries == {Paneer, <<"y">>}
LiveKs == (0 - 1)..MaxK
LiveWebChoices ==
    {[index_ok |-> FALSE, children |-> <<>>],
     [index_ok |-> TRUE, children |-> <<ChildYields(LocsMixed), ChildFails>>]}

\* What a candidate page answers, with the outcome of the cache write.
LivePageChoices ==
    {<<PageFails, "ok">>,
     <<PageYields(<<"t">>, <<W(2), N(1500), W(1)>>, <<N(2000)>>), "ok">>,
     <<PageYields(<<>>, <<W(3)>>, <<W(1), N(30)>>), "unopened">>,
     <<PageYields(<<"t">>, <<>>, <<W(4)>>), "ok">>}

NextLive ==
    \/ \E query \in LiveQueries, k \in LiveKs, web \in LiveWebChoices,
          w \in {"ok", "unopened"} :
          QueryLiveCall(query, SitemapA, k, web, w)
    \/ \E c \in LivePageChoices : QueryFetch(c[1], c[2])
    \/ \E embed_ok \in BOOLEAN, order \in ArgSorts(Len(live.docs)) :
          QueryRank(embed_ok, order)

SpecLive == Init /\ [][NextLive]_vars

(***************************************************************************)
(* SpecIngestFault: one thread ingests URLs and adds batches; a request    *)
(* and the embedder may fail, and so may each write of the persist.        *)
(***************************************************************************)
NextIngestFault ==
    \/ \E c \in IngestChoices : IngestCall(1, c.url, c.M)
    \/ \E r \in SeedPrimaryResponses : FetchPrimary(1, r)
    \/ \E r \in SeedProxyResponses : FetchProxy(1, r)
    \/ IngestChunk(1)
    \/ \E ok \in BOOLEAN : IngestEmbed(1, ok)
    \/ \E vals \in PlainBatches : AddCall(1, vals, Len(vals))
    \/ AddEnsure(1)
    \/ AddCreate(1)
    \/ AddAppend(1)
    \/ AddLoad(1)
    \/ \E ok \in BOOLEAN, damaged \in BOOLEAN : PersistIndex(1, ok, damaged)
    \/ \E ok \in BOOLEAN : PersistOpen(1, ok)
    \/ \E ok \in BOOLEAN : PersistDump(1, ok)
    \/ Finish(1)

SpecIngestFault == Init /\ [][NextIngestFault]_vars

(***************************************************************************)
(* SpecMismatch: one thread calls add_to_index with any number of vectors  *)
(* and any number of records; every write succeeds.                        *)
(***************************************************************************)
NextMismatch ==
    \/ \E vals \in PlainBatches, nr \in 0..MaxBatch : AddCall(1, vals, nr)
    \/ AddEnsure(1)
    \/ AddCreate(1)
    \/ AddAppend(1)
    \/ AddLoad(1)
    \/ PersistIndex(1, TRUE, FALSE)
    \/ PersistOpen(1, TRUE)
    \/ PersistDump(1, TRUE)
    \/ Finish(1)

SpecMismatch == Init /\ [][NextMismatch]_vars

(***************************************************************************)
(* SpecReadWrite: thread 1 adds, thread 2 searches, with no lock between   *)
(* them; every write succeeds.                                             *)
(***************************************************************************)
Writer == 1
Reader == 2

NextReadWrite ==
    \/ \E vals \in PlainBatches : AddCall(Writer, vals, Len(vals))
    \/ AddEnsure(Writer)
    \/ AddCreate(Writer)
    \/ AddAppend(Writer)
    \/ AddLoad(Writer)
    \/ PersistIndex(Writer, TRUE, FALSE)
    \/ PersistOpen(Writer, TRUE)
    \/ PersistDump(Writer, TRUE)
    \/ \E k \in 1..MaxK : SearchCall(Reader, <<1, 0>>, k)
    \/ SearchEnsure(Reader)
    \/ SearchCreate(Reader)
    \/ SearchIndex(Reader)
    \/ SearchLoad(Reader)
    \/ \E t \in Threads : Finish(t)

SpecReadWrite == Init /\ [][NextReadWrite]_vars

(***************************************************************************)
(* SpecChunk: chunk_text is called on a text of a few short runs with a    *)
(* max_chars of at least 1.                                                *)
(***************************************************************************)
ChunkRuns == {W(n) : n \in 1..MaxRun} \cup {N(n) : n \in 1..MaxRun}
ChunkTexts == UNION {[1..n -> ChunkRuns] : n \in 0..MaxRuns}

InitChunk ==
    /\ indexFile = NoFile
    /\ metaFile = NoFile
    /\ gindex = None
    /\ heap = [o \in Threads |-> <<>>]
    /\ pc = [t \in Threads |-> IF t = 1 THEN "c_chunk" ELSE "idle"]
    /\ loc \in {[t \in Threads |->
                   IF t = 1 THEN [InitLoc EXCEPT !.op = "chunk", !.text = T, !.M = M]
                            ELSE InitLoc] :
                 T \in ChunkTexts, M \in 1..MaxChunk}
    /\ ntags = 0
    /\ ncalls = 0
    /\ overlap = FALSE
    /\ seed = NoSeed
    /\ sel = NoSel
    /\ LiveInit

NextChunk == ChunkText(1)

SpecChunk == InitChunk /\ [][NextChunk]_vars

(***************************************************************************)
(* The claims.                                                             *)
(***************************************************************************)
AddDoneAt(t) == pc[t] = "ret" /\ loc[t].op = "add"
SearchDoneAt(t) == pc[t] = "ret" /\ loc[t].op = "search"

\* Record i of the persisted metadata was added with vector i of the index.
Aligned ==
    /\ Len(StoredRecords) = Len(IndexVecs)
    /\ \A i \in 1..Len(IndexVecs) : StoredRecords[i].tag = IndexVecs[i].tag

\* C1: from an empty store, with one writer whose persists all succeed:
\* right after every add the persisted metadata has as many records as the
\* index has vectors, and record i is the one added with vector i.
C1_AlignedAfterAdd == \A t \in Threads : AddDoneAt(t) => Aligned

\* An add of two vectors has returned on top of two earlier vectors.
C1_Witness ==
    /\ AddDoneAt(1)
    /\ Len(loc[1].vectors) = 2
    /\ Len(IndexVecs) = 4
    /\ Len(StoredRecords) = 4

\* C2: with two unlocked writers whose persists all succeed, the metadata
\* and the index are aligned in every state that no two calls overlapped
\* to reach; the witness is the interleaving of the claim, after which both
\* adds have returned, both persists succeeded, and a vector has no record
\* or a record is not at its vector's position.
C2_AlignedUnlessOverlap ==
    ((\A t \in Threads : ~Active(t)) /\ ~overlap) => Aligned

C2_Witness ==
    /\ \A t \in Threads : AddDoneAt(t) /\ loc[t].persisted
    /\ overlap
    /\ ~Aligned

\* The position (0-based) of the vector with this tag among the searched ones.
PosOf(t, tag) ==
    CHOOSE p \in 0..(Len(loc[t].searched) - 1) : loc[t].searched[p + 1].tag = tag

\* The inner product of the query with the vector a returned record was added with.
Score(t, rec) == Dot(loc[t].q, loc[t].searched[PosOf(t, rec.tag) + 1].val)

\* The search of thread t ran on a non-empty index, read metadata aligned
\* with it, and asked for no more records than the index has vectors.
RankedSearch(t) ==
    /\ SearchDoneAt(t)
    /\ loc[t].ntotal > 0
    /\ loc[t].k >= 1 /\ loc[t].k <= loc[t].ntotal
    /\ Len(loc[t].meta) = Len(loc[t].searched)
    /\ \A i \in 1..Len(loc[t].meta) : loc[t].meta[i].tag = loc[t].searched[i].tag

\* C5: a search that finds idx.ntotal == 0 returns the empty list and does
\* not raise, whatever the query, top_k and the state of the metadata file.
C5_EmptyIndexEmptyResult ==
    \A t \in Threads :
        (SearchDoneAt(t) /\ loc[t].ntotal = 0) =>
            (loc[t].outcome = "returned" /\ loc[t].result = <<>>)

\* A search has returned from an empty index while META_PATH held records.
C5_Witness ==
    /\ SearchDoneAt(1)
    /\ loc[1].ntotal = 0
    /\ metaFile.st = "ok" /\ Len(metaFile.data) > 0

\* C6 as stated: exactly k records; a record precedes another whenever its
\* inner product is larger, and whenever the products are equal and it was
\* added first.
C6_RankedTiesByInsertion ==
    \A t \in Threads :
        RankedSearch(t) =>
            /\ loc[t].outcome = "returned"
            /\ Len(loc[t].result) = loc[t].k
            /\ \A a, b \in 1..Len(loc[t].result) :
                 LET ra == loc[t].result[a]
                     rb == loc[t].result[b]
                 IN  ((Score(t, ra) > Score(t, rb)) \/
                      (Score(t, ra) = Score(t, rb) /\
                       PosOf(t, ra.tag) < PosOf(t, rb.tag))) => a < b

\* C6 as amended: exactly k records of k different positions, none with a
\* smaller inner product than a record after it or than a vector left out;
\* the order of records with equal products is not fixed.
C6_RankedByInnerProduct ==
    \A t \in Threads :
        RankedSearch(t) =>
            /\ loc[t].outcome = "returned"
            /\ Len(loc[t].result) = loc[t].k
            /\ \A a, b \in 1..Len(loc[t].result) :
                 /\ (a # b) => loc[t].result[a].tag # loc[t].result[b].tag
                 /\ (Score(t, loc[t].result[a]) > Score(t, loc[t].result[b])) => a < b
            /\ \A a \in 1..Len(loc[t].result), p \in 1..Len(loc[t].searched) :
                 (\A b \in 1..Len(loc[t].result) :
                     loc[t].result[b].tag # loc[t].searched[p].tag)
                 => Score(t, loc[t].result[a]) >= Dot(loc[t].q, loc[t].searched[p].val)

\* A search for 2 of 3 vectors whose inner products with the query are 0, 1, 1
\* has returned.
C6_Witness ==
    /\ RankedSearch(1)
    /\ loc[1].k = 2
    /\ loc[1].ntotal = 3
    /\ Dot(loc[1].q, loc[1].searched[1].val) = 0
    /\ Dot(loc[1].q, loc[1].searched[2].val) = 1
    /\ Dot(loc[1].q, loc[1].searched[3].val) = 1

\* C7 as stated: a search of a non-empty index returns at most
\* min(k, index.count) records and no position twice.
C7_AtMostMinNoRepeat ==
    \A t \in Threads :
        (SearchDoneAt(t) /\ loc[t].ntotal >= 1) =>
            /\ loc[t].outcome = "returned"
            /\ Len(loc[t].result) <= Min2(loc[t].k, loc[t].ntotal)
            /\ \A a, b \in 1..Len(loc[t].result) :
                 (a # b) => loc[t].result[a].tag # loc[t].result[b].tag

IngestAt(t) == loc[t].op = "ingest"
IngestDoneAt(t) == pc[t] = "ret" /\ loc[t].op = "ingest"

\* C3: a call of ingest_url_to_index that raises (the fetch exhausted every
\* attempt, or the embedding of a batch failed) leaves the index and the
\* persisted metadata as they were at the call; nothing is added while the
\* call fetches, chunks and embeds.
C3_RaiseLeavesStore ==
    \A t \in Threads :
        (IngestAt(t) /\ (loc[t].outcome = "raised"
                          \/ pc[t] \in {"f_primary", "f_proxy", "i_chunk", "i_embed"})) =>
            /\ IndexVecs = loc[t].pre.vecs
            /\ StoredRecords = loc[t].pre.meta

\* The embedding of the second batch of a call has failed, on a store that
\* held vectors.
C3_Witness ==
    /\ IngestDoneAt(1)
    /\ loc[1].outcome = "raised"
    /\ loc[1].fetch = "ok"
    /\ Len(loc[1].vectors_list) = 16
    /\ Len(loc[1].pre.vecs) > 0

\* What a call that fetched text T for url must have returned and added:
\* status ingested, one vector and one record per chunk of chunk_text(T, M),
\* appended in chunk order, each record with the call's URL and the first
\* 1200 characters of its chunk.
IngestedAsChunked(t) ==
    LET l == loc[t]
        chunks == chunk_text(l.text, l.M)
        n == Len(chunks)
        newVecs == SubSeq(IndexVecs, Len(l.pre.vecs) + 1, Len(IndexVecs))
        newRecs == SubSeq(StoredRecords, Len(l.pre.meta) + 1, Len(StoredRecords))
    IN  /\ l.outcome = "returned"
        /\ l.result = [status |-> "ingested", url |-> l.url, chunks |-> n]
        /\ ((TLen(l.text) = 2500 /\ l.M = 1000) => n = 3)
        /\ Len(IndexVecs) = Len(l.pre.vecs) + n
        /\ SubSeq(IndexVecs, 1, Len(l.pre.vecs)) = l.pre.vecs
        /\ Len(StoredRecords) = Len(l.pre.meta) + n
        /\ SubSeq(StoredRecords, 1, Len(l.pre.meta)) = l.pre.meta
        /\ \A i \in 1..n :
             /\ newRecs[i].tag = newVecs[i].tag
             /\ newRecs[i].url = l.url
             /\ newRecs[i].snippet.first = chunks[i].first
             /\ newRecs[i].snippet.last = Min2(chunks[i].last, chunks[i].first + 1199)
             /\ ChunkLen(newRecs[i].snippet) <= 1200

\* C4 as stated: whenever the fetch succeeded, the call returns ingested
\* with the chunks of the text added.
C4_FetchedThenIngested ==
    \A t \in Threads :
        (IngestDoneAt(t) /\ loc[t].fetch = "ok") => IngestedAsChunked(t)

\* C4 as amended: whenever the fetch succeeded and no batch failed to embed
\* (one writer, the persist succeeding), the call returns ingested with the
\* chunks of the text added.
C4_FetchedEmbeddedThenIngested ==
    \A t \in Threads :
        (IngestDoneAt(t) /\ loc[t].fetch = "ok" /\ loc[t].outcome # "raised")
            => IngestedAsChunked(t)

\* The scenario of the claim, on a store that held records: 2500 characters,
\* max_chars 1000, three records added.
C4_Witness ==
    /\ IngestDoneAt(1)
    /\ loc[1].outcome = "returned"
    /\ TLen(loc[1].text) = 2500 /\ loc[1].M = 1000
    /\ Len(loc[1].pre.meta) > 0
    /\ Len(StoredRecords) = Len(loc[1].pre.meta) + 3

\* The attempts of a fetch over the variants vs, in order: two primary
\* attempts on each variant, then three on the proxy.
PrimaryPlan(vs) ==
    [j \in 1..(2 * Len(vs)) |->
        [kind |-> "primary", v |-> (j + 1) \div 2, attempt |-> 2 - (j % 2)]]

ProxyPlan == [j \in 1..3 |-> [kind |-> "proxy", v |-> 0, attempt |-> j]]

Plan(vs) == PrimaryPlan(vs) \o ProxyPlan

IsPrefix(s, full) == Len(s) <= Len(full) /\ s = SubSeq(full, 1, Len(s))

\* The fetch raised after every attempt planned over vs, each recorded as
\* an error, and ended the call with the one aggregated error.
ExhaustedOver(t, vs) ==
    /\ loc[t].variants = vs
    /\ loc[t].log = Plan(vs)
    /\ loc[t].n_primary = 2 * Len(vs)
    /\ loc[t].n_proxy = 3
    /\ pc[t] = "ret" /\ loc[t].outcome = "raised"
    /\ loc[t].result = [primary |-> loc[t].primary_errors, proxy |-> loc[t].proxy_errors]
    /\ Len(loc[t].primary_errors) = 3 /\ Len(loc[t].proxy_errors) = 3

C9_PrefixOfPlan ==
    \A t \in Threads :
        IngestAt(t) =>
            /\ IsPrefix(loc[t].log, Plan(loc[t].variants))
            /\ (pc[t] = "f_proxy") => Len(loc[t].log) >= 2 * Len(loc[t].variants)
            /\ (loc[t].fetch = "ok") => pc[t] \notin {"f_primary", "f_proxy"}

C9_NoAttemptAfterAccept ==
    \A t \in Threads :
        /\ (IngestAt(t) /\ loc[t].fetch = "ok" /\ loc'[t].op = "ingest")
              => loc'[t].log = loc[t].log
        /\ (IngestAt(t) /\ loc[t].fetch = "none" /\ loc'[t].fetch = "ok")
              => /\ Len(loc'[t].log) = Len(loc[t].log) + 1
                 /\ loc'[t].text # <<>>

\* C9: the attempts of every fetch follow the fixed order (all primary attempts
\* variant by variant, then the proxy attempts) and the attempt that is accepted
\* is the last one made.
C9_FixedOrder == [](C9_PrefixOfPlan) /\ [][C9_NoAttemptAfterAccept]_vars

\* The second attempt on the second variant was accepted and the call went
\* on to embed.
C9_Witness ==
    /\ IngestAt(1)
    /\ loc[1].fetch = "ok"
    /\ Len(loc[1].log) = 4
    /\ pc[1] = "i_embed"

\* C10: text a fetch returned has at least 200 characters when a primary
\* attempt produced it and at least 120 when the proxy did, so it is never
\* empty; every other attempt is counted as an error.
C10_ReturnedTextLongEnough ==
    \A t \in Threads :
        IngestAt(t) =>
            /\ Len(loc[t].log) =
                 loc[t].n_primary + loc[t].n_proxy + (IF loc[t].fetch = "ok" THEN 1 ELSE 0)
            /\ (loc[t].fetch = "ok") =>
                 /\ loc[t].src \in {"primary", "proxy"}
                 /\ (loc[t].src = "primary") => TLen(loc[t].text) >= 200
                 /\ (loc[t].src = "proxy") => TLen(loc[t].text) >= 120
                 /\ TLen(loc[t].text) > 0

\* The proxy's 120 characters were returned after six primary attempts, the
\* first of which gave text too short.
C10_Witness ==
    /\ IngestAt(1)
    /\ loc[1].fetch = "ok"
    /\ loc[1].src = "proxy"
    /\ TLen(loc[1].text) = 120
    /\ loc[1].n_primary = 6
    /\ loc[1].primary_errors[1] = "too-short"

(***************************************************************************)
(* Claims on ingest_seed_list.                                             *)
(***************************************************************************)
\* The attempts made for the URL at position i.
SeedCallsOf(i) == {j \in 1..Len(seed.calls) : seed.calls[j].u = i}

SeedAllRaised(i) == \A j \in SeedCallsOf(i) : seed.calls[j].ended = "raised"

\* C11: ingest_seed_list processes every URL of the list whatever raises:
\* while it runs it holds one entry for each URL it is done with, and what it
\* returns has one entry per URL, in the order of the list, whose result is
\* "failed" exactly for the URLs whose attempts all raised.
C11_OneEntryPerUrl ==
    /\ seed.pc \in {"try", "wait"} =>
          /\ Len(seed.results) = (seed.u - 1) + (IF seed.success THEN 1 ELSE 0)
          /\ seed.u <= Len(seed.urls) + 1
    /\ (seed.pc = "done" /\ "details" \in DOMAIN seed.out) =>
          LET d == seed.out.details IN
            /\ seed.u = Len(seed.urls) + 1
            /\ Len(d) = Len(seed.urls)
            /\ \A i \in 1..Len(d) :
                  /\ d[i].url = seed.urls[i]
                  /\ (d[i].result = Failed) <=> SeedAllRaised(i)

\* Of two URLs the first failed on both attempts and the second was ingested.
C11_Witness ==
    /\ seed.pc = "done"
    /\ "details" \in DOMAIN seed.out
    /\ Len(seed.urls) = 2
    /\ seed.max_retries = 2
    /\ Cardinality(SeedCallsOf(1)) = 2
    /\ seed.out.details[1].result = Failed
    /\ seed.out.details[2].result.status = "ingested"
    /\ seed.out.ingested = 1

\* C12: the attempts for a URL are numbered 1, 2, ... up to max_retries at
\* most; attempt a+1 follows attempt a only when a raised, so none follows a
\* successful one; a URL has a "failed" entry only when max_retries attempts
\* were made for it and all of them raised.
C12_RetriesBounded ==
    /\ \A j \in 1..Len(seed.calls) :
          LET c == seed.calls[j] IN
            /\ c.attempt \in 1..seed.max_retries
            /\ (c.ended = "none") => (j = Len(seed.calls) /\ seed.pc = "wait")
            /\ IF j > 1 /\ seed.calls[j - 1].u = c.u
                 THEN /\ c.attempt = seed.calls[j - 1].attempt + 1
                      /\ seed.calls[j - 1].ended = "raised"
                 ELSE /\ c.attempt = 1
                      /\ (j > 1) => (seed.calls[j - 1].u < c.u)
    /\ \A i \in 1..Len(seed.results) :
          (seed.results[i].result = Failed) =>
              /\ Cardinality(SeedCallsOf(i)) = seed.max_retries
              /\ SeedAllRaised(i)

\* The first attempt for a URL raised, the second one returned, and the list
\* was finished with no third attempt.
C12_Witness ==
    /\ seed.pc = "done"
    /\ seed.max_retries = 2
    /\ Len(seed.calls) = 2
    /\ seed.calls[1] = [u |-> 1, attempt |-> 1, ended |-> "raised"]
    /\ seed.calls[2] = [u |-> 1, attempt |-> 2, ended |-> "returned"]
    /\ seed.results[1].result.status = "ingested"

(***************************************************************************)
(* Claims on select_candidates.                                            *)
(***************************************************************************)
SelTokens == q_tokens(sel.query)
SelRange(seq) == {seq[i] : i \in 1..Len(seq)}

\* C13: for every query, every non-empty list of URLs and every top_n >= 1
\* the candidates are not empty, are at most top_n, and are all URLs of the
\* list.
C13_CandidatesNeverEmpty ==
    (sel.done /\ sel.urls # <<>> /\ sel.top_n >= 1) =>
        /\ sel.result # <<>>
        /\ Len(sel.result) <= sel.top_n
        /\ SelRange(sel.result) \subseteq SelRange(sel.urls)

\* No URL of a list of three matches the query, two candidates are asked for:
\* the first two of the list come back.
C13_Witness ==
    /\ sel.done
    /\ sel.query = <<"j", "j", "j">>
    /\ sel.urls = <<UrlPlain, UrlInner, UrlPlain>>
    /\ sel.top_n = 2
    /\ sel.result = <<UrlPlain, UrlInner>>

\* The score with 4 for every occurrence of a token in the final segment.
ScorePerOccurrence(tokens, u) ==
    LET ul == lower(u) IN
      (IF Contains(ul, Recipe) THEN 3 ELSE 0)
        + 2 * occurrences(ul, tokens, 1)
        + 4 * occurrences(LastPart(rstrip_slash(ul), "/"), tokens, 1)

\* The score with 4 for every token that occurs in the final segment.
ScorePerToken(tokens, u) ==
    LET ul == lower(u) IN
      (IF Contains(ul, Recipe) THEN 3 ELSE 0)
        + 2 * occurrences(ul, tokens, 1)
        + 4 * Cardinality({i \in 1..Len(tokens) :
                             Contains(LastPart(rstrip_slash(ul), "/"), tokens[i])})

\* The result is the entries of the list that score above 0, by descending
\* score, cut to top_n; the score is the one per occurrence or the one per
\* token.
RankedBy(per_occurrence) ==
    LET ScoreOf(tokens, u) == IF per_occurrence THEN ScorePerOccurrence(tokens, u)
                                                ELSE ScorePerToken(tokens, u)
        pos == {i \in 1..Len(sel.urls) : ScoreOf(SelTokens, sel.urls[i]) > 0}
        res == sel.result
    IN  (sel.done /\ pos # {}) =>
          /\ Len(res) = Min2(sel.top_n, Cardinality(pos))
          /\ \A i \in 1..Len(res) :
                Cardinality({j \in 1..Len(res) : res[j] = res[i]})
                  <= Cardinality({j \in pos : sel.urls[j] = res[i]})
          /\ \A i \in 1..Len(res), j \in 1..Len(res) :
                i < j => ScoreOf(SelTokens, res[i]) >= ScoreOf(SelTokens, res[j])
          /\ \A j \in pos :
                (\E i \in 1..Len(res) :
                    ScoreOf(SelTokens, sel.urls[j]) > ScoreOf(SelTokens, res[i]))
                  => Cardinality({i \in 1..Len(res) : res[i] = sel.urls[j]})
                       = Cardinality({i \in pos : sel.urls[i] = sel.urls[j]})

\* C14 as stated: when a URL scores above 0 the result is the URLs that score
\* above 0, by descending score and cut to top_n, the score being 3 for the
\* keyword, 2 per occurrence of a token in the URL and 4 per occurrence of a
\* token in the final segment.
C14_RankedPerOccurrence == RankedBy(TRUE)

\* C14 as amended: the same, the score giving 4 once for every token that
\* occurs in the final segment however often it occurs there.
C14_RankedPerToken == RankedBy(FALSE)

\* A URL with the token three times outside its final segment and the
\* keyword (score 9) is placed before one with the token twice in its final
\* segment (score 8 in the code, 12 per occurrence).
C14_Witness ==
    /\ sel.done
    /\ sel.query = Paneer
    /\ sel.urls = <<UrlTwice, UrlDeep, UrlPlain>>
    /\ sel.top_n = 3
    /\ sel.result = <<UrlDeep, UrlTwice>>

HasToken(u) == \E i \in 1..Len(SelTokens) : Contains(lower(u), SelTokens[i])
HasTokenLast(u) ==
    \E i \in 1..Len(SelTokens) :
        Contains(LastPart(rstrip_slash(lower(u)), "/"), SelTokens[i])

\* Every URL of the list that contains a token (in its final segment, when
\* last_only) is placed before every URL of the list that contains no
\* token: none of the latter precedes one of the former in the result, and
\* none of the latter is in the result while one of the former is left out.
PlacedAhead(last_only) ==
    LET First(u) == IF last_only THEN HasTokenLast(u) ELSE HasToken(u)
        res == sel.result
    IN
      sel.done =>
        /\ \A i \in 1..Len(res), j \in 1..Len(res) :
              (i < j /\ First(res[j])) => HasToken(res[i])
        /\ (\E i \in 1..Len(res) : ~HasToken(res[i])) =>
              \A j \in 1..Len(sel.urls) :
                  First(sel.urls[j]) => sel.urls[j] \in SelRange(res)

\* C15 as stated: every URL that contains a query token is placed ahead of
\* every URL that contains none.
C15_TokenUrlsFirst == PlacedAhead(FALSE)

\* C15 as amended: every URL whose final segment contains a query token is
\* placed ahead of every URL that contains none.
C15_LastSegmentTokenUrlsFirst == PlacedAhead(TRUE)

\* Of the 5 URLs of the sitemap the 2 with "paneer" in the final segment
\* come first, before the one that has only the keyword.
C15_Witness ==
    /\ sel.done
    /\ sel.query = Paneer
    /\ sel.urls = ScenarioUrls
    /\ sel.top_n = 3
    /\ sel.result = <<UrlTwice, UrlTikka, UrlKeyword>>

(***************************************************************************)
(* Claims on load_sitemap_urls.                                            *)
(***************************************************************************)
SitemapCallDone == live.op = "sitemap"

\* The entry the call found was readable and less than 24 hours old.
FoundFresh == live.pre.st = "ok" /\ live.at - live.pre.fetched_at < 24 * 3600

\* C16: every URL that load_sitemap_urls(index_url) returns has the host of
\* index_url.
C16_ReturnedUrlsOfTheSitemapHost ==
    SitemapCallDone =>
        \A i \in 1..Len(live.result) : netloc(live.result[i]) = netloc(live.arg)

\* C17: a call that finds a readable entry less than 24 hours old returns
\* the URLs of that entry, makes no network request, and leaves the entry as
\* it was.
C17_FreshEntryServed ==
    (SitemapCallDone /\ FoundFresh) =>
        /\ live.result = live.pre.urls
        /\ live.requests = <<>>
        /\ live.post = live.pre

\* An entry with URLs, one second short of 24 hours old, was served.
C17_Witness ==
    /\ SitemapCallDone
    /\ live.pre.st = "ok"
    /\ live.pre.urls # <<>>
    /\ live.at - live.pre.fetched_at = 24 * 3600 - 1
    /\ live.result = live.pre.urls
    /\ live.requests = <<>>
    /\ sitemapCache = live.pre

\* The URLs a refresh for index_url keeps of the <loc> entries it fetched.
KeptOf(index_url, locs) ==
    {u \in SelRange(locs) :
        netloc(u) = netloc(index_url) /\ is_recipe_url(u) /\ ~url_looks_like_media(u)}

StrictlyAscending(seq) ==
    \A i \in 1..Len(seq), j \in 1..Len(seq) : i < j => StrLess(seq[i], seq[j])

PageCallDone == live.op = "page"

\* What the last call of fetch_text did, against the page cache it found.
PageCallRight ==
    PageCallDone =>
      LET key == url_to_filename(live.arg)
          found == live.ppre[key]
          media == url_looks_like_media(live.arg)
      IN  /\ media =>
                /\ live.result = [url |-> live.arg, title |-> <<>>, text |-> <<>>]
                /\ live.requests = <<>>
                /\ live.ppost = live.ppre
          /\ (~media /\ found.st = "ok") =>
                /\ live.result = found.data
                /\ live.requests = <<>>
                /\ live.ppost = live.ppre
          /\ (live.requests # <<>>) =>
                /\ Len(live.requests) = 1
                /\ ~media
                /\ found.st # "ok"
          /\ (live.got = "failed") =>
                /\ live.ppost = live.ppre
                /\ live.result.text = <<>>
          /\ live.wrote =>
                /\ live.result.url = live.arg
                /\ live.ppost[key] = [st |-> "ok", data |-> live.result]

\* A readable entry of the page cache stays as it is, whatever time passes.
PageEntryKept ==
    \A key \in PageKeys :
        pageCache[key].st = "ok" => pageCache'[key] = pageCache[key]

\* C19: fetch_text requests a page only for a URL that is no media file and
\* has no readable cache entry; an entry written after a successful fetch is
\* what every later fetch of the URL returns, with no request, however much
\* later; a media URL gives empty text with no request and no entry; a
\* failed fetch writes no entry.
C19_PageCacheServedForever == [](PageCallRight) /\ [][PageEntryKept]_vars

\* A page fetched and written is asked for again a day later: the entry is
\* returned with no request.
C19_Witness ==
    /\ PageCallDone
    /\ live.arg = UrlPlain
    /\ live.got = "cached"
    /\ live.ppre[url_to_filename(UrlPlain)].data.url = UrlPlain
    /\ live.result = live.ppre[url_to_filename(UrlPlain)].data
    /\ live.result.text = <<N(1500)>>
    /\ live.requests = <<>>
    /\ clock >= 24 * 3600

QueryDone == live.op = "query" /\ live.pc = "done"

\* The candidates of the last query whose page came with text.
WithText ==
    {live.pages[j].url : j \in {i \in 1..Len(live.pages) :
                                   strip(live.pages[i].text) # <<>>}}

\* The last query raised only in the embedder, and returned the empty list
\* when there was no sitemap URL or no candidate with text; what it returned
\* are distinct candidates that have text.
QueryDegrades ==
    QueryDone =>
      /\ live.outcome \in {"returned", "raised"}
      /\ (live.outcome = "raised") =>
            (live.got = "embedder raised" /\ WithText # {})
      /\ (live.sitemap_urls = <<>> \/ WithText = {}) =>
            (live.outcome = "returned" /\ live.result = <<>>)
      /\ (live.outcome = "returned") =>
            /\ \A i \in 1..Len(live.result) :
                  /\ live.result[i].url \in Elements(live.candidates)
                  /\ live.result[i].url \in WithText
            /\ \A i, j \in 1..Len(live.result) :
                  live.result[i].url = live.result[j].url => i = j

\* C20 as stated: query_live does not fail because of a candidate page; it
\* returns only candidates with non-empty text, at most k of them whatever k
\* is, and the empty list when the sitemap URL set is empty or no candidate
\* has text.
C20_AtMostKForEveryK ==
    /\ QueryDegrades
    /\ (QueryDone /\ live.outcome = "returned") => Len(live.result) <= live.k

\* C20: query_live does not fail because of a candidate page; it returns
\* only candidates with non-empty text and the empty list when the sitemap
\* URL set is empty or no candidate has text; it returns at most k results
\* for k >= 0 and all but the last -k ranked documents for a negative k.
C20_AtMostKForNaturalK ==
    /\ QueryDegrades
    /\ (QueryDone /\ live.outcome = "returned") =>
          /\ live.k >= 0 => Len(live.result) <= live.k
          /\ live.k < 0 =>
                Len(live.result) = Max2(Cardinality(WithText) + live.k, 0)

\* A query with k = 1 whose first candidate failed to load and whose second
\* came with text: the one result is the second candidate.
C20_Witness ==
    /\ QueryDone
    /\ live.outcome = "returned"
    /\ live.k = 1
    /\ Len(live.pages) = 2
    /\ live.pages[1].got = "failed"
    /\ live.pages[2].got = "fetched"
    /\ Len(live.result) = 1
    /\ live.result[1].url = live.pages[2].url

(***************************************************************************)
(* Claims on chunk_text.                                                   *)
(***************************************************************************)
ChunkDoneAt(t) == pc[t] = "ret" /\ loc[t].op = "chunk"

\* Character p (0-based) of the text is whitespace.
WsAt(text, p) ==
    \E r \in 1..Len(text) :
        /\ text[r].ws
        /\ RunStart(text, r) <= p
        /\ p < RunStart(text, r) + text[r].n

\* The characters of window w of the text that are no whitespace.
InkOf(text, M, w) ==
    {p \in (w * M)..(Min2((w + 1) * M, TLen(text)) - 1) : ~WsAt(text, p)}

\* The windows up to w that hold a character other than whitespace.
InkedUpTo(text, M, w) == {v \in 0..w : InkOf(text, M, v) # {}}

\* C21: chunk_text(T, M) with M > 0 returns, in order, the stripped
\* non-empty windows T[0:M], T[M:2M], ...: each chunk runs from the first
\* to the last character of its window that is no whitespace, is 1 to M
\* characters long, and what is left of T outside the chunks is whitespace
\* at the ends of windows.
C21_ChunksAreStrippedWindows ==
    \A t \in Threads :
        ChunkDoneAt(t) =>
          LET T == loc[t].text
              M == loc[t].M
              chunks == loc[t].chunks
              last_w == (TLen(T) + M - 1) \div M - 1
              inked == InkedUpTo(T, M, last_w)
          IN  /\ Len(chunks) = Cardinality(inked)
              /\ \A w \in inked :
                    LET c == chunks[Cardinality(InkedUpTo(T, M, w))] IN
                      /\ c.first = SetMin(InkOf(T, M, w))
                      /\ c.last = SetMax(InkOf(T, M, w))
              /\ \A i \in 1..Len(chunks) :
                    /\ 1 <= ChunkLen(chunks[i]) /\ ChunkLen(chunks[i]) <= M
                    /\ i < Len(chunks) => chunks[i].last < chunks[i + 1].first
              /\ \A p \in 0..(TLen(T) - 1) :
                    (\A i \in 1..Len(chunks) : p < chunks[i].first \/ p > chunks[i].last)
                      => WsAt(T, p)

\* Eight characters in windows of three: the middle window is whitespace
\* and gives no chunk, the last window is short.
C21_Witness ==
    /\ ChunkDoneAt(1)
    /\ loc[1].text = <<N(3), W(3), N(2)>>
    /\ loc[1].M = 3
    /\ loc[1].chunks = <<[first |-> 0, last |-> 2], [first |-> 6, last |-> 7]>>

(***************************************************************************)
(* Claims on the store after a restart and after failed writes.            *)
(***************************************************************************)
\* The call of thread t built _index in a fresh process that found exactly
\* one of the two artifacts readable.
LoadedWithOneArtifact(t) ==
    /\ loc[t].loaded.index # "none"
    /\ (loc[t].loaded.index = "ok") # (loc[t].loaded.meta = "ok")

\* C22 as stated: in a fresh process that finds exactly one of the two
\* artifacts missing or unreadable the store is an empty store: a search
\* returns no record, and after the first add whose persist succeeds the
\* persisted metadata has one record per vector of the index, each at the
\* position of its own vector.
C22_OneArtifactMeansEmptyStore ==
    \A t \in Threads :
        /\ (SearchDoneAt(t) /\ LoadedWithOneArtifact(t)) =>
              (loc[t].outcome = "returned" /\ loc[t].result = <<>>)
        /\ (AddDoneAt(t) /\ loc[t].persisted /\ LoadedWithOneArtifact(t)) => Aligned

\* The call of thread t reached the persist and one of its writes failed.
PersistFailedAt(t) ==
    /\ pc[t] = "ret"
    /\ loc[t].op \in {"add", "ingest"}
    /\ Len(loc[t].vectors) > 0
    /\ ~loc[t].persisted

\* C23: when a write of the persist fails, add_to_index returns (it does
\* not raise), the index in memory ends with the vectors of the call, no
\* record of the call is in the persisted metadata, and a call of
\* ingest_url_to_index returns status ingested with its chunk count.
C23_FailedPersistIsSwallowed ==
    \A t \in Threads :
        PersistFailedAt(t) =>
          LET n == Len(loc[t].vectors) IN
            /\ loc[t].outcome = "returned"
            /\ Len(IndexVecs) >= n
            /\ SubSeq(IndexVecs, Len(IndexVecs) - n + 1, Len(IndexVecs)) = loc[t].vectors
            /\ \A i \in 1..Len(StoredRecords), j \in 1..n :
                  StoredRecords[i].tag # loc[t].vectors[j].tag
            /\ (loc[t].op = "ingest") =>
                  loc[t].result = [status |-> "ingested", url |-> loc[t].url,
                                   chunks |-> Len(loc[t].chunks)]

\* An ingest on a store that held records: the dump of the metadata failed
\* after the file was opened, and the call returned ingested.
C23_Witness ==
    /\ PersistFailedAt(1)
    /\ loc[1].op = "ingest"
    /\ Len(loc[1].pre.meta) > 0
    /\ metaFile.st = "corrupt"
    /\ indexFile.st = "ok"
    /\ Len(indexFile.data) = Len(loc[1].pre.vecs) + Len(loc[1].chunks)
    /\ loc[1].result.status = "ingested"

\* C24 as stated: a call of add_to_index with a number of vectors other
\* than its number of records is rejected: none of its vectors is in the
\* index and none of its records in the persisted metadata.
C24_MismatchedAddRejected ==
    \A t \in Threads :
        (AddDoneAt(t) /\ Len(loc[t].vectors) # Len(loc[t].metadatas)) =>
            /\ \A i \in 1..Len(IndexVecs), j \in 1..Len(loc[t].vectors) :
                  IndexVecs[i].tag # loc[t].vectors[j].tag
            /\ \A i \in 1..Len(StoredRecords), j \in 1..Len(loc[t].metadatas) :
                  StoredRecords[i].tag # loc[t].metadatas[j].tag

(***************************************************************************)
(* Claims on concurrent calls.                                             *)
(***************************************************************************)
\* Thread t is inside add_to_index, persist included.
InAdd(t) ==
    pc[t] \in {"a_ensure", "a_create", "a_append", "a_load", "p_index", "p_open", "p_dump"}

\* C25 as stated: the service serializes writers: at no time are the
\* ingest of a /ingest_url request and the background seed ingestion of
\* /ingest_seeds both inside add_to_index.
C25_WritersSerialized == ~(InAdd(RequestThread) /\ InAdd(SeedThread))

\* C26 as stated: in one process with one writer, every add whose persist
\* succeeds leaves as many records in the persisted metadata as the index
\* has vectors, also when the persist of an earlier add failed.
C26_AlignedAfterEverySuccessfulPersist ==
    \A t \in Threads :
        (pc[t] = "ret" /\ loc[t].op \in {"add", "ingest"} /\ loc[t].persisted) =>
            Len(StoredRecords) = Len(IndexVecs)

\* The positions FAISS reported to the search of thread t that are
\* positions of vectors (no filler).
Matched(t) == {loc[t].I[j] : j \in {i \in 1..Len(loc[t].I) : loc[t].I[i] >= 0}}

\* The search of thread t returned, and what it returned are the records of
\* vectors it matched, each read at the position of its own vector; a
\* matched position without a record in the metadata it read gave none.
OwnRecordsOnly(t) ==
    /\ loc[t].outcome = "returned"
    /\ \A p \in Matched(t) :
          p < Len(loc[t].meta) => loc[t].meta[p + 1].tag = loc[t].searched[p + 1].tag
    /\ \A i \in 1..Len(loc[t].result) :
          \E p \in Matched(t) :
              /\ p < Len(loc[t].meta)
              /\ loc[t].result[i].tag = loc[t].searched[p + 1].tag

\* C27 as stated: with one writer whose persists all succeed, a search that
\* runs while an add is between its index append and its metadata write
\* returns only records of the vectors it matched; a matched position
\* whose record is not persisted yet is skipped.
C27_ConcurrentSearchOwnRecords ==
    (SearchDoneAt(Reader) /\ loc[Reader].I # <<>>) => OwnRecordsOnly(Reader)


\* No call of load_sitemap_urls is running.
AllFinished == \A c \in Callers : refresh.call[c].pc = "idle"

\* The file holds the whole entry of one refresh, and every call that has
\* returned gave the whole URL list of one entry.
WholeEntries ==
    /\ (AllFinished /\ refresh.entries # {}) => sitemapCache \in refresh.entries
    /\ \A c \in Callers :
          refresh.call[c].from # "none" =>
             \E e \in refresh.entries : refresh.call[c].result = e.urls

\* Every entry built so far fits one frame of the pickle.
SingleWrites == \A e \in refresh.entries : Len(e.urls) < FrameSize

C29_IngestNeverEmpty ==
    \A t \in Threads :
       (IngestDoneAt(t) /\ loc[t].M >= 1 /\ loc[t].outcome = "returned") =>
          /\ loc[t].fetch = "ok"
          /\ TLen(loc[t].text) >= ProxyMinLen
          /\ strip(loc[t].text) = loc[t].text
          /\ loc[t].result.status = "ingested"
          /\ loc[t].result.chunks >= 1
          /\ loc[t].result.chunks = Len(loc[t].chunks)

C29_Witness ==
    /\ IngestDoneAt(1)
    /\ loc[1].outcome = "returned"
    /\ loc[1].src = "proxy"
    /\ TLen(loc[1].text) = ProxyMinLen
    /\ loc[1].result.status = "ingested"
    /\ loc[1].result.chunks >= 1

==============================================================================
